---- MODULE Spec2Model ----
(***************************************************************************)
(* A model of the RTD client of the ThinkorSwim dashboard                  *)
(* (src/src/rtd/client.py, src/src/core/error_handler.py,                   *)
(* src/src/utils/topic.py, src/src/utils/cleanup.py).                       *)
(*                                                                         *)
(* The state is one RTDClient object together with the provider it talks   *)
(* to.  initialize() and Disconnect() make provider calls during which the *)
(* provider may call back into the client (UpdateNotify, Disconnect) and   *)
(* other callers may run, so both are split at their provider calls; the   *)
(* other methods are one step each.  Every method is modelled with its     *)
(* decorators: validate_connection_state innermost, handle_com_error       *)
(* outermost (log_method_call only logs and re-raises).                    *)
(*                                                                         *)
(* `last` is a history variable: the record of the call that returned or   *)
(* raised most recently (its arguments, the connection state it was made   *)
(* in, what it returned or raised, the provider calls it made, and what    *)
(* the step in which it returned changed and left behind).                 *)
(* `acked` is the provider's side of the subscriptions.                    *)
(* _last_refresh_time and the logger are not modelled.                     *)
(***************************************************************************)
EXTENDS Integers, Sequences, FiniteSets, TLC

(* ------------------------------------------------------------------ *)
(* Bounds of the model                                                *)
(* ------------------------------------------------------------------ *)

\* longest list handed to batch_subscribe / batch_unsubscribe
MaxBatch == 2

\* cap on _update_notify_count (an unbounded counter in the code)
MaxUpdates == 1

\* most (topic id, value) pairs in one RefreshData result
MaxRefresh == 1

\* the most (id, value) pairs of a RefreshData result in the refresh cycles
MaxCycle == 2

(* ------------------------------------------------------------------ *)
(* RTDConnectionState, error classes                                  *)
(* ------------------------------------------------------------------ *)

DISCONNECTED == "DISCONNECTED"

CONNECTED == "CONNECTED"

CONNECTING == "CONNECTING"

DISCONNECTING == "DISCONNECTING"

RTDConnectionState == {DISCONNECTED, CONNECTED, CONNECTING, DISCONNECTING}

\* "no exception": the call returned
NoExc == [cls |-> "none"]

\* Python's None, for the server handle
None == "None"

\* the COM server object CreateObject returns
ServerHandle == "IRtdServer"

\* SETTINGS['timing']['initial_heartbeat'] and ['default_heartbeat']: the
\* configuration file is not part of the source, the two values are symbolic
InitialHeartbeat == "initial_heartbeat"

\* faulty variant: the interval configured on success is the startup one
DefaultHeartbeat_Startup == "initial_heartbeat"

DefaultHeartbeat == "default_heartbeat"

(* ------------------------------------------------------------------ *)
(* Inputs                                                             *)
(* ------------------------------------------------------------------ *)

\* names of QuoteType members used by the callers (rtd_worker.py)
QuoteTypeNames == {"LAST", "OPEN_INT", "GAMMA", "VOLUME"}

\* The (quote_type, symbol) requests made of subscribe and unsubscribe.
\* The first two are a real collision of generate_topic_id; the last
\* names no QuoteType.
Requests ==
    { <<"OPEN_INT", ".SPY250620C530">>,
      <<"GAMMA", ".SPY250620C590">>,
      <<"LAST", "SPY">>,
      <<"BOGUS", "SPY">> }

\* the requests the batch operations are called with
BatchRequests ==
    { <<"OPEN_INT", ".SPY250620C530">>,
      <<"LAST", "SPY">> }

\* what a provider call can do: succeed, refuse, or raise a COM error
ProviderOutcomes == {"ok", "refuse", "raise"}

\* raw values the provider delivers in RefreshData
RawValues == {"N/A", "450.10"}

(* ------------------------------------------------------------------ *)
(* src/utils/topic.py                                                 *)
(* ------------------------------------------------------------------ *)

\* validate_quote_type: QuoteType[str(quote_type).upper()].value, KeyError
\* turned into ValueError.  The result is the set holding the normalized
\* string, or the empty set when ValueError is raised.
validate_quote_type(quote_type) ==
    IF quote_type \in QuoteTypeNames THEN {quote_type} ELSE {}

\* the pairs generate_topic_id is tabulated for
TopicInputs ==
    ({"LAST", "OPEN_INT", "GAMMA", "VOLUME"}
        \X {"SPY", ".SPY250620C530", ".SPY250620C590"})
    \cup {<<"LAST", "QQQ">>}

\* the last seven hexadecimal digits of md5("{quote_type}:{symbol}"), as a
\* number (values computed with hashlib)
Md5Tail(quote_type, symbol) ==
    CASE quote_type = "LAST" /\ symbol = "SPY" -> 6434309
      [] quote_type = "OPEN_INT" /\ symbol = ".SPY250620C530" -> 97266487
      [] quote_type = "GAMMA" /\ symbol = ".SPY250620C590" -> 62532407
      [] quote_type = "GAMMA" /\ symbol = ".SPY250620C530" -> 172767132
      [] quote_type = "VOLUME" /\ symbol = ".SPY250620C530" -> 244472182
      [] quote_type = "GAMMA" /\ symbol = "SPY" -> 266242861
      [] quote_type = "OPEN_INT" /\ symbol = "SPY" -> 180105485
      [] quote_type = "VOLUME" /\ symbol = "SPY" -> 91110671
      [] quote_type = "LAST" /\ symbol = ".SPY250620C530" -> 145486431
      [] quote_type = "LAST" /\ symbol = ".SPY250620C590" -> 260467535
      [] quote_type = "OPEN_INT" /\ symbol = ".SPY250620C590" -> 89664921
      [] quote_type = "VOLUME" /\ symbol = ".SPY250620C590" -> 146939152
      [] quote_type = "LAST" /\ symbol = "QQQ" -> 260042416

\* 2**16, the size of the id space
TopicIdSpace == 65536

\* faulty variant: the digest is not folded
generate_topic_id_Unfolded(quote_type, symbol) == Md5Tail(quote_type, symbol)

\* generate_topic_id: int(md5("{quote_type}:{symbol}").hexdigest(), 16) % 2**16
generate_topic_id(quote_type, symbol) ==
    Md5Tail(quote_type, symbol) % TopicIdSpace

\* find_topic_id: the id whose entry is (symbol, quote_type), as a set
\* (empty for None).  An id is generated from its pair, so at most one
\* entry holds a given pair and the dictionary order does not matter.
find_topic_id(tp, symbol, quote_type) ==
    {id \in DOMAIN tp : tp[id] = <<symbol, quote_type>>}

(* ------------------------------------------------------------------ *)
(* src/core/error_handler.py                                          *)
(* ------------------------------------------------------------------ *)

\* the RTDConnectionError validate_connection_state raises; its message
\* names the function, the expected states and the actual state
InvalidStateError(fname, expected, st) ==
    [cls |-> "RTDConnectionError", func |-> fname,
     expected |-> expected, actual |-> st]

\* faulty variant: no general case for the DISCONNECTING state
validate_connection_state_NoShutdownCase(fname, expected, st) ==
    IF st \in expected THEN "run"
    ELSE IF fname = "heartbeat" /\ st = DISCONNECTED THEN "skip"
    ELSE IF fname = "Disconnect" /\ st = DISCONNECTING THEN "skip"
    ELSE "raise"

\* validate_connection_state: "run" the method, "skip" it (return None
\* silently) or "raise" InvalidStateError
validate_connection_state(fname, expected, st) ==
    IF st \in expected THEN "run"
    ELSE IF fname = "heartbeat" /\ st = DISCONNECTED THEN "skip"
    ELSE IF fname = "Disconnect" /\ st = DISCONNECTING THEN "skip"
    ELSE IF st = DISCONNECTING THEN "skip"
    ELSE "raise"

\* handle_com_error: any exception e leaving the method (COMError or not)
\* is replaced by error_class, whose message names the method and carries
\* the text of e
handle_com_error(error_class, fname, e) ==
    IF e = NoExc THEN NoExc
    ELSE [cls |-> error_class, func |-> fname,
          text |-> IF e.cls = "COMError" THEN "COM error in"
                   ELSE "Unexpected error in",
          cause |-> e]

(* ------------------------------------------------------------------ *)
(* State                                                              *)
(* ------------------------------------------------------------------ *)

VARIABLES
    state,                \* RTDClient._state
    server,               \* RTDClient.server
    topics,               \* RTDClient.topics: id -> <<symbol, quote_type>>
    latest_values,        \* RTDClient._latest_values: <<symbol, quote_type>> -> value
    heartbeat_interval,   \* RTDClient._heartbeat_interval
    update_notify_count,  \* RTDClient._update_notify_count
    coInit,               \* COM initialization count of the client's thread
    pcInit,               \* where a running initialize() is
    pcDisc,               \* where the Disconnect() holding _lock is
    discTodo,             \* its subscriptions still to unsubscribe
    discCalls,            \* the provider calls it has made
    discWas,              \* the state it was called in
    discFrom,             \* the state its body found under _lock
    stack,                \* per thread, the calls in progress on the client
    discWaiting,          \* the state a second Disconnect(), blocked on _lock, was called in
    acked,                \* provider: ids acknowledged and not disconnected since
    last,                 \* the call that returned or raised most recently
    wClient,              \* RTDWorker.client: 0 for None, or the index in clients
    wInitialized,         \* RTDWorker.initialized
    clients,              \* the RTDClient objects the worker has created
    wCom,                 \* COM initialization count of each start() thread
    queue,                \* RTDWorker.data_queue
    stop_event,           \* RTDWorker.stop_event.is_set()
    starts,               \* the number of start() calls so far
    thr                   \* each start() thread: where it is and its locals

vars == <<state, server, topics, latest_values, heartbeat_interval,
          update_notify_count, coInit, pcInit, pcDisc, discTodo, discCalls,
          discWas, discFrom, stack, discWaiting, acked, last, wClient, wInitialized, clients,
          wCom, queue, stop_event, starts, thr>>

\* the variables of the client object itself
clientVars == <<state, server, topics, latest_values, heartbeat_interval,
                update_notify_count, coInit>>

\* the variables of the running initialize() and Disconnect()
flightVars == <<pcInit, pcDisc, discTodo, discCalls, discWas, discFrom, discWaiting,
               stack>>

\* the variables of the worker, its clients, its queue and its threads
workerVars == <<wClient, wInitialized, clients, wCom, queue, stop_event,
                starts, thr>>

\* the variables of the client that is used without a worker
soloVars == <<clientVars, flightVars, acked, last>>

\* the threads that call RTDWorker.start
Threads == {1, 2}

\* a thread that is not in start(): the locals of start and, for the
\* call that has returned, what it did
IdleThread ==
    [pc |-> "idle", symbols |-> <<>>, i |-> 0, retry_count |-> 0,
     subscription_errors |-> <<>>, last_data |-> <<>>, current_data |-> <<>>,
     attempts |-> <<>>, looped |-> FALSE, path |-> "", raised |-> FALSE,
     cleanups |-> 0, disconnects |-> 0, releases |-> 0,
     coinits |-> 0, couninits |-> 0,
     errors |-> 0, snapshots |-> 0, afterStop |-> 0, pumped |-> 0,
     left |-> "none", raises |-> <<>>, posted |-> <<>>,
     skipped |-> FALSE, discarded |-> 0, cursor |-> {}]

(* ------------------------------------------------------------------ *)
(* Return values and the call record                                  *)
(* ------------------------------------------------------------------ *)

\* a provider call and what the provider did, and one about a topic id
PCall(fn, out) == [fn |-> fn, out |-> out]

TopicCall(fn, id, out) == [fn |-> fn, id |-> id, out |-> out]

RetNone == [kind |-> "None"]

RetRaised == [kind |-> "raised"]

RetBool(b) == [kind |-> "bool", flag |-> b]

RetId(id) == [kind |-> "id", id |-> id]

RetMap(m) == [kind |-> "map", map |-> m]

\* the fields of the client this step changes
Changed ==
    (IF state' # state THEN {"state"} ELSE {})
    \cup (IF server' # server THEN {"server"} ELSE {})
    \cup (IF topics' # topics THEN {"topics"} ELSE {})
    \cup (IF latest_values' # latest_values THEN {"latest_values"} ELSE {})
    \cup (IF heartbeat_interval' # heartbeat_interval
          THEN {"heartbeat_interval"} ELSE {})
    \cup (IF update_notify_count' # update_notify_count
          THEN {"update_notify_count"} ELSE {})

\* The record of a finished call, written in the step in which it returns
\* or raises (as the last conjunct, the other variables being set).
\* `items` are, for a batch, the success of each item's own
\* subscribe/unsubscribe, in list order.
Call(op, args, was, ret, exc, calls, items) ==
    [op |-> op, args |-> args, was |-> was,
     ret |-> ret, exc |-> exc, calls |-> calls, items |-> items,
     changed |-> Changed,
     after |-> [state |-> state', server |-> server', coInit |-> coInit']]

Init ==
    /\ state = DISCONNECTED
    /\ server = None
    /\ topics = <<>>
    /\ latest_values = <<>>
    /\ heartbeat_interval = InitialHeartbeat
    /\ update_notify_count = 0
    /\ coInit = 0
    /\ pcInit = "idle"
    /\ pcDisc = "idle"
    /\ discTodo = {}
    /\ discCalls = <<>>
    /\ discWas = ""
    /\ discFrom = ""
    /\ stack = [c \in Threads |-> <<>>]
    /\ discWaiting = ""
    /\ acked = {}
    /\ wClient = 0
    /\ wInitialized = FALSE
    /\ clients = <<>>
    /\ wCom = [t \in Threads |-> 0]
    /\ queue = <<>>
    /\ stop_event = FALSE
    /\ starts = 0
    /\ thr = [t \in Threads |-> IdleThread]
    /\ last = [op |-> "__init__", args |-> <<>>, was |-> DISCONNECTED,
               ret |-> RetNone, exc |-> NoExc, calls |-> <<>>, items |-> <<>>,
               changed |-> {},
               after |-> [state |-> DISCONNECTED, server |-> None, coInit |-> 0]]

(* ------------------------------------------------------------------ *)
(* src/utils/cleanup.py                                               *)
(* ------------------------------------------------------------------ *)

\* cleanup_com: pythoncom.CoUninitialize(), errors logged and swallowed
cleanup_com(n) == IF n > 0 THEN n - 1 ELSE 0

\* faulty variant: the table is left as the unsubscriptions left it
cleanup_topics_Keep(tp) == tp

\* cleanup_topics: topics.clear()
cleanup_topics(tp) == <<>>

(* ------------------------------------------------------------------ *)
(* RTDClient.initialize                                               *)
(* ------------------------------------------------------------------ *)

\* the exception initialize raises to its caller for inner exception e
InitializeError(e) == handle_com_error("RTDServerError", "initialize", e)

\* the server handle the client holds after a failed initialize whose
\* handle was srv: the except branch does not touch self.server
InitializeFailedServer(srv) == srv

\* the except branch of initialize: back to DISCONNECTED, cleanup_com(), raise
InitializeFailed(e, calls, n) ==
    /\ state' = DISCONNECTED
    /\ server' = InitializeFailedServer(server)
    /\ coInit' = cleanup_com(n)
    /\ pcInit' = "idle"
    /\ UNCHANGED heartbeat_interval
    /\ last' = Call("initialize", <<>>, DISCONNECTED, RetRaised,
                    InitializeError(e), calls, <<>>)

\* initialize() is called: the state check, then CONNECTING
Initialize ==
    /\ UNCHANGED workerVars
    /\ IF state # DISCONNECTED
       THEN /\ UNCHANGED <<clientVars, flightVars, acked>>
            /\ last' = Call("initialize", <<>>, state, RetRaised,
                            InitializeError([cls |-> "RTDConnectionError",
                                             func |-> "initialize",
                                             actual |-> state]),
                            <<>>, <<>>)
       ELSE /\ pcInit = "idle"
            /\ state' = CONNECTING
            /\ pcInit' = "create"
            /\ UNCHANGED <<server, topics, latest_values, heartbeat_interval,
                           update_notify_count, coInit, pcDisc, discTodo,
                           discCalls, discWas, discFrom, stack, discWaiting, acked, last>>

\* CoInitialize() and CreateObject(): the handle is stored, or the call raises
InitCreate ==
    /\ UNCHANGED workerVars
    /\ pcInit = "create"
    /\ UNCHANGED <<topics, latest_values, update_notify_count, pcDisc,
                   discTodo, discCalls, discWas, discFrom, stack, discWaiting, acked>>
    /\ \E out \in {"ok", "raise"} :
         IF out = "ok"
         THEN /\ coInit' = coInit + 1
              /\ server' = ServerHandle
              /\ pcInit' = "start"
              /\ UNCHANGED <<state, heartbeat_interval, last>>
         ELSE InitializeFailed([cls |-> "COMError"],
                               <<PCall("CreateObject", "raise")>>,
                               coInit + 1)

\* server.ServerStart(self): result 1, another result, or an exception
\* (an AttributeError when a Disconnect has taken the handle meanwhile)
InitStart ==
    /\ UNCHANGED workerVars
    /\ pcInit = "start"
    /\ UNCHANGED <<topics, latest_values, update_notify_count, pcDisc,
                   discTodo, discCalls, discWas, discFrom, stack, discWaiting, acked>>
    /\ \E out \in ProviderOutcomes :
         LET calls == IF server = None THEN <<PCall("CreateObject", "ok")>>
                      ELSE <<PCall("CreateObject", "ok"),
                             PCall("ServerStart", out)>> IN
         IF server # None /\ out = "ok"
         THEN /\ state' = CONNECTED
              /\ heartbeat_interval' = DefaultHeartbeat
              /\ pcInit' = "idle"
              /\ UNCHANGED <<server, coInit>>
              /\ last' = Call("initialize", <<>>, DISCONNECTED, RetNone, NoExc,
                              calls, <<>>)
         ELSE InitializeFailed(
                    IF server = None THEN [cls |-> "AttributeError"]
                    ELSE IF out = "refuse" THEN [cls |-> "RTDServerError"]
                    ELSE [cls |-> "COMError"],
                    calls, coInit)

(* ------------------------------------------------------------------ *)
(* RTDClient.check_heartbeat                                          *)
(* ------------------------------------------------------------------ *)

\* faulty variant: DISCONNECTED is not declared legal
HeartbeatStates_ConnectedOnly == {CONNECTED}

\* the states check_heartbeat declares legal
HeartbeatStates == {CONNECTED, DISCONNECTED}

\* check_heartbeat with its decorators, for provider outcome out of
\* server.Heartbeat(): [ret, exc, calls]
check_heartbeat(st, srv, out) ==
    LET v == validate_connection_state("check_heartbeat", HeartbeatStates, st)
        wrap(e) == handle_com_error("RTDHeartbeatError", "check_heartbeat", e)
    IN  CASE v = "skip" -> [ret |-> RetNone, exc |-> NoExc, calls |-> <<>>]
          [] v = "raise" ->
               [ret |-> RetRaised, calls |-> <<>>,
                exc |-> wrap(InvalidStateError("check_heartbeat",
                                               HeartbeatStates, st))]
          [] v = "run" /\ st = DISCONNECTED ->
               [ret |-> RetBool(FALSE), exc |-> NoExc, calls |-> <<>>]
          [] v = "run" /\ st # DISCONNECTED /\ srv = None ->
               [ret |-> RetRaised, calls |-> <<>>,
                exc |-> wrap([cls |-> "RTDHeartbeatError"])]
          [] v = "run" /\ st # DISCONNECTED /\ srv # None ->
               IF out = "raise"
               THEN [ret |-> RetRaised, calls |-> <<PCall("Heartbeat", out)>>,
                     exc |-> wrap([cls |-> "RTDHeartbeatError"])]
               ELSE [ret |-> RetBool(out = "ok"), exc |-> NoExc,
                     calls |-> <<PCall("Heartbeat", out)>>]

CheckHeartbeat ==
    /\ UNCHANGED workerVars
    /\ \E out \in ProviderOutcomes :
         \E r \in {check_heartbeat(state, server, out)} :
         /\ UNCHANGED <<clientVars, flightVars, acked>>
         /\ last' = Call("check_heartbeat", <<>>, state, r.ret, r.exc, r.calls, <<>>)

(* ------------------------------------------------------------------ *)
(* RTDClient.subscribe, RTDClient.unsubscribe                         *)
(* ------------------------------------------------------------------ *)

\* tp with the entry id -> entry added (or replaced)
Put(tp, id, entry) ==
    [i \in DOMAIN tp \cup {id} |-> IF i = id THEN entry ELSE tp[i]]

\* tp without the entry of id
Del(tp, id) ==
    IF DOMAIN tp \subseteq {id} THEN <<>>
    ELSE [i \in DOMAIN tp \ {id} |-> tp[i]]

\* what a method leaves behind: return value, exception, provider calls
\* made, and the subscription table and provider side after it
Result(ret, exc, calls, tp, ak) ==
    [ret |-> ret, exc |-> exc, calls |-> calls, topics |-> tp, acked |-> ak]

\* the states subscribe declares legal
SubscribeStates == {CONNECTED}

\* the states unsubscribe declares legal
UnsubscribeStates == {CONNECTED, DISCONNECTING}

\* faulty variant: the table is never consulted before ConnectData
AlreadySubscribed_Never(tp, topic_id) == FALSE

\* `if topic_id in self.topics`: subscribe returns the id at once
AlreadySubscribed(tp, topic_id) == topic_id \in DOMAIN tp

\* faulty variant: any result that is not an exception counts as accepted
ConnectDataAccepted_AnyResult(out) == out # "raise"

\* `isinstance(result, list) and len(result) >= 1 and result[0]`
ConnectDataAccepted(out) == out = "ok"

\* faulty variant: any result that is not an exception counts as success
DisconnectDataSucceeded_AnyResult(out) == out # "raise"

\* `result == 0`
DisconnectDataSucceeded(out) == out = "ok"

\* subscribe with its decorators, in connection state st with server
\* handle srv, table tp and provider side ak; out is what ConnectData does
subscribe(st, srv, tp, ak, quote_type, symbol, out) ==
    LET v == validate_connection_state("subscribe", SubscribeStates, st)
        wrap(e) == handle_com_error("RTDClientError", "subscribe", e)
        qts == validate_quote_type(quote_type)
    IN  IF v = "skip" THEN Result(RetNone, NoExc, <<>>, tp, ak)
        ELSE IF v = "raise"
        THEN Result(RetRaised,
                    wrap(InvalidStateError("subscribe", SubscribeStates, st)),
                    <<>>, tp, ak)
        ELSE IF qts = {}
        THEN Result(RetRaised, wrap([cls |-> "ValueError"]), <<>>, tp, ak)
        ELSE
          LET quote_type_str == CHOOSE q \in qts : TRUE
              topic_id == generate_topic_id(quote_type_str, symbol)
              failed == wrap([cls |-> "RTDClientError",
                              text |-> "Subscription failed for"])
          IN  IF AlreadySubscribed(tp, topic_id)
              THEN Result(RetId(topic_id), NoExc, <<>>, tp, ak)
              ELSE IF srv = None
              THEN Result(RetRaised, failed, <<>>, tp, ak)
              ELSE IF out = "raise"
              THEN Result(RetRaised, failed,
                          <<TopicCall("ConnectData", topic_id, out)>>, tp, ak)
              ELSE IF ConnectDataAccepted(out)
              THEN Result(RetId(topic_id), NoExc,
                          <<TopicCall("ConnectData", topic_id, out)>>,
                          Put(tp, topic_id, <<symbol, quote_type_str>>),
                          IF out = "ok" THEN ak \cup {topic_id} ELSE ak)
              ELSE Result(RetNone, NoExc,
                          <<TopicCall("ConnectData", topic_id, out)>>, tp, ak)

\* unsubscribe with its decorators; out is what DisconnectData does
unsubscribe(st, srv, tp, ak, quote_type, symbol, out) ==
    LET v == validate_connection_state("unsubscribe", UnsubscribeStates, st)
        wrap(e) == handle_com_error("RTDClientError", "unsubscribe", e)
        qts == validate_quote_type(quote_type)
    IN  IF v = "skip" THEN Result(RetNone, NoExc, <<>>, tp, ak)
        ELSE IF v = "raise"
        THEN Result(RetRaised,
                    wrap(InvalidStateError("unsubscribe", UnsubscribeStates, st)),
                    <<>>, tp, ak)
        ELSE IF qts = {}
        THEN Result(RetRaised, wrap([cls |-> "ValueError"]), <<>>, tp, ak)
        ELSE
          LET quote_type_str == CHOOSE q \in qts : TRUE
              found == find_topic_id(tp, symbol, quote_type_str)
          IN  IF found = {}
              THEN Result(RetBool(FALSE), NoExc, <<>>, tp, ak)
              ELSE
                LET topic_id == CHOOSE id \in found : TRUE IN
                IF srv = None
                THEN Result(RetBool(FALSE), NoExc, <<>>, tp, ak)
                ELSE IF out # "raise" /\ DisconnectDataSucceeded(out)
                THEN Result(RetBool(TRUE), NoExc,
                            <<TopicCall("DisconnectData", topic_id, out)>>,
                            Del(tp, topic_id),
                            IF out = "ok" THEN ak \ {topic_id} ELSE ak)
                ELSE Result(RetBool(FALSE), NoExc,
                            <<TopicCall("DisconnectData", topic_id, out)>>, tp, ak)

Subscribe ==
    /\ UNCHANGED workerVars
    /\ \E req \in Requests, out \in ProviderOutcomes :
         \E r \in {subscribe(state, server, topics, acked, req[1], req[2], out)} :
         /\ topics' = r.topics
         /\ acked' = r.acked
         /\ UNCHANGED <<state, server, latest_values, heartbeat_interval,
                        update_notify_count, coInit, flightVars>>
         /\ last' = Call("subscribe", <<req>>, state, r.ret, r.exc, r.calls, <<>>)

Unsubscribe ==
    /\ UNCHANGED workerVars
    /\ \E req \in Requests, out \in ProviderOutcomes :
         \E r \in {unsubscribe(state, server, topics, acked, req[1], req[2], out)} :
         /\ topics' = r.topics
         /\ acked' = r.acked
         /\ UNCHANGED <<state, server, latest_values, heartbeat_interval,
                        update_notify_count, coInit, flightVars>>
         /\ last' = Call("unsubscribe", <<req>>, state, r.ret, r.exc, r.calls, <<>>)

(* ------------------------------------------------------------------ *)
(* RTDClient.batch_subscribe, RTDClient.batch_unsubscribe             *)
(* ------------------------------------------------------------------ *)

\* the lists of requests a batch is called with
BatchLists == UNION {[1..n -> BatchRequests] : n \in 0..MaxBatch}

\* the accumulator of a batch loop: the results dictionary (keyed by
\* <<str(quote_type), symbol>>), each item's own success, the provider
\* calls, and the table and provider side so far
BatchAcc(map, items, calls, tp, ak) ==
    [map |-> map, items |-> items, calls |-> calls, topics |-> tp, acked |-> ak]

\* faulty variant: the item's exception is not turned into False
BatchSubscribeFlag_NoExcept(r) == r.ret # RetNone

\* the flag batch_subscribe stores for an item whose subscribe left r:
\* topic_id is not None, or False when it raised
BatchSubscribeFlag(r) == IF r.exc # NoExc THEN FALSE ELSE r.ret # RetNone

\* the flag batch_unsubscribe stores: what unsubscribe returned, or False
\* when it raised
BatchUnsubscribeFlag(r) == IF r.exc # NoExc THEN FALSE ELSE r.ret = RetBool(TRUE)

\* the accumulator after an item whose subscribe or unsubscribe left r:
\* the flag stored under the item's key, and the item's own success (a
\* topic id returned, True returned)
BatchStore(acc, req, r, kind) ==
    BatchAcc(Put(acc.map, req,
                 IF kind = "subscribe" THEN BatchSubscribeFlag(r)
                 ELSE BatchUnsubscribeFlag(r)),
             Append(acc.items,
                    /\ r.exc = NoExc
                    /\ IF kind = "subscribe" THEN r.ret.kind = "id"
                       ELSE r.ret = RetBool(TRUE)),
             acc.calls \o r.calls, r.topics, r.acked)

\* one pass of the loop of batch_subscribe
BatchSubscribeItem(st, srv, acc, req, out) ==
    BatchStore(acc, req,
               subscribe(st, srv, acc.topics, acc.acked, req[1], req[2], out),
               "subscribe")

\* one pass of the loop of batch_unsubscribe
BatchUnsubscribeItem(st, srv, acc, req, out) ==
    BatchStore(acc, req,
               unsubscribe(st, srv, acc.topics, acc.acked, req[1], req[2], out),
               "unsubscribe")

RECURSIVE BatchLoop(_, _, _, _, _, _, _)
\* the for loop of a batch over subscriptions[i..], outs[k] being what
\* the provider does for item k
BatchLoop(kind, st, srv, acc, subscriptions, outs, i) ==
    IF i > Len(subscriptions) THEN acc
    ELSE BatchLoop(kind, st, srv,
                   IF kind = "subscribe"
                   THEN BatchSubscribeItem(st, srv, acc, subscriptions[i], outs[i])
                   ELSE BatchUnsubscribeItem(st, srv, acc, subscriptions[i], outs[i]),
                   subscriptions, outs, i + 1)

batch_subscribe(st, srv, tp, ak, subscriptions, outs) ==
    BatchLoop("subscribe", st, srv, BatchAcc(<<>>, <<>>, <<>>, tp, ak),
              subscriptions, outs, 1)

batch_unsubscribe(st, srv, tp, ak, subscriptions, outs) ==
    BatchLoop("unsubscribe", st, srv, BatchAcc(<<>>, <<>>, <<>>, tp, ak),
              subscriptions, outs, 1)

BatchSubscribe ==
    /\ UNCHANGED workerVars
    /\ \E subscriptions \in BatchLists :
         \E outs \in [1..Len(subscriptions) -> ProviderOutcomes] :
           \E r \in {batch_subscribe(state, server, topics, acked, subscriptions, outs)} :
           /\ topics' = r.topics
           /\ acked' = r.acked
           /\ UNCHANGED <<state, server, latest_values, heartbeat_interval,
                          update_notify_count, coInit, flightVars>>
           /\ last' = Call("batch_subscribe", subscriptions, state, RetMap(r.map),
                           NoExc, r.calls, r.items)

BatchUnsubscribe ==
    /\ UNCHANGED workerVars
    /\ \E subscriptions \in BatchLists :
         \E outs \in [1..Len(subscriptions) -> ProviderOutcomes] :
           \E r \in {batch_unsubscribe(state, server, topics, acked, subscriptions, outs)} :
           /\ topics' = r.topics
           /\ acked' = r.acked
           /\ UNCHANGED <<state, server, latest_values, heartbeat_interval,
                          update_notify_count, coInit, flightVars>>
           /\ last' = Call("batch_unsubscribe", subscriptions, state, RetMap(r.map),
                           NoExc, r.calls, r.items)


(* ------------------------------------------------------------------ *)
(* RTDClient.Disconnect                                               *)
(* ------------------------------------------------------------------ *)

\* the states Disconnect declares legal
DisconnectStates == {CONNECTED, CONNECTING}

\* what the state validation in front of Disconnect decides in state st
DisconnectValidation(st) ==
    validate_connection_state("Disconnect", DisconnectStates, st)

\* Disconnect's body once it holds _lock, called in state was: the two
\* early returns, or DISCONNECTING and the list of subscriptions
DisconnectLocked(was) ==
    IF state \in {DISCONNECTED, DISCONNECTING}
    THEN /\ UNCHANGED <<state, pcDisc, discTodo, discCalls, discWas, discFrom>>
         /\ last' = Call("Disconnect", <<>>, was, RetNone, NoExc, <<>>, <<>>)
    ELSE /\ state' = DISCONNECTING
         /\ pcDisc' = "busy"
         /\ discTodo' = {<<topics[id][2], topics[id][1]>> : id \in DOMAIN topics}
         /\ discCalls' = <<>>
         /\ discWas' = was
         /\ discFrom' = state
         /\ UNCHANGED last

\* Disconnect() is called: the state validation, then _lock
Disconnect ==
    /\ UNCHANGED workerVars
    /\ LET v == DisconnectValidation(state) IN
       /\ UNCHANGED <<server, topics, latest_values, heartbeat_interval,
                      update_notify_count, coInit, pcInit, acked, stack>>
       /\ IF v = "skip"
          THEN /\ UNCHANGED <<state, pcDisc, discTodo, discCalls, discWas, discFrom, discWaiting>>
               /\ last' = Call("Disconnect", <<>>, state, RetNone, NoExc, <<>>, <<>>)
          ELSE IF v = "raise"
          THEN /\ UNCHANGED <<state, pcDisc, discTodo, discCalls, discWas, discFrom, discWaiting>>
               /\ last' = Call("Disconnect", <<>>, state, RetRaised,
                               handle_com_error("RTDServerError", "Disconnect",
                                   InvalidStateError("Disconnect", DisconnectStates,
                                                     state)),
                               <<>>, <<>>)
          ELSE IF pcDisc = "idle"
          THEN /\ UNCHANGED discWaiting
               /\ DisconnectLocked(state)
          ELSE /\ discWaiting = ""
               /\ discWaiting' = state
               /\ UNCHANGED <<state, pcDisc, discTodo, discCalls, discWas, discFrom, last>>

\* the blocked Disconnect() gets _lock
DisconnectAcquire ==
    /\ UNCHANGED workerVars
    /\ discWaiting # ""
    /\ pcDisc = "idle"
    /\ discWaiting' = ""
    /\ UNCHANGED <<server, topics, latest_values, heartbeat_interval,
                   update_notify_count, coInit, pcInit, acked, stack>>
    /\ DisconnectLocked(discWaiting)

\* one item of the batch_unsubscribe Disconnect runs over its subscriptions
DiscUnsubscribe ==
    /\ UNCHANGED workerVars
    /\ pcDisc = "busy"
    /\ \E req \in discTodo, out \in ProviderOutcomes :
         \E r \in {unsubscribe(state, server, topics, acked, req[1], req[2], out)} :
         /\ topics' = r.topics
         /\ acked' = r.acked
         /\ discCalls' = discCalls \o r.calls
         /\ discTodo' = discTodo \ {req}
    /\ UNCHANGED <<state, server, latest_values, heartbeat_interval,
                   update_notify_count, coInit, pcInit, pcDisc, discWas, discFrom, stack,
                   discWaiting, last>>

\* the rest of Disconnect: cleanup_topics, ServerTerminate (its exception
\* is logged), server = None, cleanup_com, DISCONNECTED.  The provider's
\* side of the subscriptions ends with the server handle.
DiscTerminate ==
    /\ UNCHANGED workerVars
    /\ pcDisc = "busy"
    /\ discTodo = {}
    /\ topics' = cleanup_topics(topics)
    /\ server' = None
    /\ coInit' = cleanup_com(coInit)
    /\ state' = DISCONNECTED
    /\ pcDisc' = "idle"
    /\ discCalls' = <<>>
    /\ discWas' = ""
    /\ discFrom' = ""
    /\ acked' = {}
    /\ UNCHANGED <<latest_values, heartbeat_interval, update_notify_count,
                   pcInit, discTodo, discWaiting, stack>>
    /\ \E out \in {"ok", "raise"} :
         last' = Call("Disconnect", <<>>, discWas, RetNone, NoExc,
                      IF server # None
                      THEN Append(discCalls, PCall("ServerTerminate", out))
                      ELSE discCalls,
                      <<>>)

(* ------------------------------------------------------------------ *)
(* src/utils/quote.py                                                 *)
(* ------------------------------------------------------------------ *)

\* float("inf"), above every number of the model
Infinity == 1073741824

\* the quote types _process_value converts with _to_float and _to_int
FloatKinds ==
    {"LAST", "BID", "ASK", "HIGH", "LOW", "OPEN", "CLOSE", "MARK", "DELTA",
     "GAMMA"}

IntKinds == {"VOLUME", "ASK_SIZE", "BID_SIZE", "LAST_SIZE", "OPEN_INT"}

\* Numbers are held in hundredths.  float(value) of a string, as a set:
\* empty when float raises ValueError (a blank, a "%", a "'")
PyFloat(value) ==
    CASE value = "450.10" -> {45010}
      [] value = "451.25" -> {45125}
      [] value = "37.50" -> {3750}
      [] value = "inf" -> {Infinity}
      [] OTHER -> {}

\* value.rstrip('%')
RStripPercent(value) == IF value = "37.50%" THEN "37.50" ELSE value

\* Quote._to_float: the "'" notation (whole + ticks/32), or float of the
\* value without its trailing "%"; as a set, empty for the None that the
\* except branch returns
QuoteToFloat(value) ==
    IF value = "109'080" THEN {10925}
    ELSE PyFloat(RStripPercent(value))

\* Quote._to_int: int(float(value)); for a value that is not a number the
\* ValueError is caught and None returned
QuoteToInt(value) ==
    {(v \div 100) * 100 : v \in PyFloat(value) \ {Infinity}}

\* faulty variant: only "N/A" is taken for the sentinel
QuoteNotAvailable_OneSentinel(value) == value = "N/A"

\* `value is None or value in ['N/A', '!N/A']`
QuoteNotAvailable(value) == value \in {None, "N/A", "!N/A"}

\* Quote(quote_type, symbol, value) raises: int(float("inf")) is an
\* OverflowError, which _to_int does not catch
QuoteRaises(quote_type, value) ==
    /\ ~QuoteNotAvailable(value)
    /\ quote_type \in IntKinds
    /\ Infinity \in PyFloat(value)

\* the except branch of _to_float or _to_int runs: the conversion of the
\* value raised ValueError
QuoteParseFailed(quote_type, value) ==
    /\ ~QuoteNotAvailable(value)
    /\ \/ quote_type \in FloatKinds \cup {"IMPL_VOL"} /\ QuoteToFloat(value) = {}
       \/ quote_type \in IntKinds /\ PyFloat(value) = {}

\* Quote._process_value: the normalized value as a set, empty for None
QuoteProcessValue(quote_type, value) ==
    IF QuoteNotAvailable(value) THEN {}
    ELSE IF quote_type \in FloatKinds THEN QuoteToFloat(value)
    ELSE IF quote_type \in IntKinds THEN QuoteToInt(value)
    ELSE IF quote_type = "IMPL_VOL" THEN QuoteToFloat(value)
    ELSE {value}

(* ------------------------------------------------------------------ *)
(* RTDClient.refresh_topics, RTDClient.UpdateNotify                   *)
(* ------------------------------------------------------------------ *)

\* topic ids the provider reports values for
RefreshIds == {11063, 11781}

\* What server.RefreshData() does: raise; return something that is not
\* a 2-element list ("malformed"); return [0, ...] ("nodata"); return a
\* data part that is not a 2-tuple ("baddata"); or return ids and values,
\* a topic at most once in a result.
RefreshResults ==
    {[shape |-> s, data |-> <<>>] :
        s \in {"raise", "malformed", "nodata", "baddata"}}
    \cup {[shape |-> "data", data |-> d] :
            d \in {u \in UNION {[1..n -> RefreshIds \X RawValues] :
                                   n \in 1..MaxRefresh} :
                     \A i, j \in DOMAIN u : u[i][1] = u[j][1] => i = j}}

\* quote.value of a Quote whose value is None, as it would stand in the
\* cache: a number that no conversion yields
NoneValue == 0 - 1

\* faulty variant: a None value is stored like any other
HandleQuoteUpdate_StoreNone(cache, symbol, quote_type, value) ==
    Put(cache, <<symbol, quote_type>>,
        IF value = {} THEN NoneValue ELSE CHOOSE v \in value : TRUE)

\* _handle_quote_update: a None value is dropped, another replaces the
\* cache entry of (symbol, quote_type)
HandleQuoteUpdate(cache, symbol, quote_type, value) ==
    IF value = {} THEN cache
    ELSE Put(cache, <<symbol, quote_type>>, CHOOSE v \in value : TRUE)

\* raw values of the refresh cycles: also one whose conversion fails
CycleValues == RawValues \cup {"inf"}

\* the RefreshData results of the refresh cycles
CycleResults ==
    {[shape |-> s, data |-> <<>>] :
        s \in {"raise", "malformed", "nodata", "baddata"}}
    \cup {[shape |-> "data", data |-> d] :
            d \in UNION {[1..n -> RefreshIds \X CycleValues] : n \in 1..MaxCycle}}

RECURSIVE RefreshLoop(_, _, _, _)
\* the for loop of refresh_topics over zip(topic_ids, raw_values): the
\* cache it leaves, and whether it was left by an exception of Quote()
RefreshLoop(tp, cache, data, i) ==
    IF i > Len(data) THEN [cache |-> cache, raised |-> FALSE]
    ELSE LET id == data[i][1]
             raw_value == data[i][2]
         IN  IF id \in DOMAIN tp /\ QuoteRaises(tp[id][2], raw_value)
             THEN [cache |-> cache, raised |-> TRUE]
             ELSE RefreshLoop(tp,
                     IF id \in DOMAIN tp
                     THEN HandleQuoteUpdate(cache, tp[id][1], tp[id][2],
                              QuoteProcessValue(tp[id][2], raw_value))
                     ELSE cache,
                     data, i + 1)

\* faulty variant: a failed refresh reports success
RefreshFailed_True == RetBool(TRUE)

\* `return False`: what refresh_topics returns for an unexpected result
\* and from its except branch
RefreshFailed == RetBool(FALSE)

\* faulty variant: notifications are also taken during the handshake
RefreshStates_WhileConnecting == {CONNECTED, CONNECTING}

\* the states refresh_topics and UpdateNotify declare legal
RefreshStates == {CONNECTED}

\* refresh_topics with its decorators: [ret, exc, calls, cache]
refresh_topics(st, srv, tp, cache, result) ==
    LET v == validate_connection_state("refresh_topics", RefreshStates, st)
        done(ret, calls, c) ==
            [ret |-> ret, exc |-> NoExc, calls |-> calls, cache |-> c]
    IN  IF v = "skip" THEN done(RetNone, <<>>, cache)
        ELSE IF v = "raise"
        THEN [ret |-> RetRaised, calls |-> <<>>, cache |-> cache,
              exc |-> handle_com_error("RTDClientError", "refresh_topics",
                          InvalidStateError("refresh_topics", RefreshStates, st))]
        ELSE IF srv = None THEN done(RefreshFailed, <<>>, cache)
        ELSE IF result.shape \in {"raise", "malformed", "baddata"}
        THEN done(RefreshFailed, <<PCall("RefreshData", result.shape)>>, cache)
        ELSE IF result.shape = "nodata"
        THEN done(RetBool(TRUE), <<PCall("RefreshData", result.shape)>>, cache)
        ELSE LET loop == RefreshLoop(tp, cache, result.data, 1) IN
             done(IF loop.raised THEN RefreshFailed ELSE RetBool(TRUE),
                  <<PCall("RefreshData", result.shape)>>, loop.cache)

\* refresh_topics is called and RefreshData returns one of results
RefreshTopicsWith(results) ==
    /\ UNCHANGED workerVars
    /\ \E result \in results :
         \E r \in {refresh_topics(state, server, topics, latest_values, result)} :
         /\ latest_values' = r.cache
         /\ UNCHANGED <<state, server, topics, heartbeat_interval,
                        update_notify_count, coInit, flightVars, acked>>
         /\ last' = Call("refresh_topics", <<>>, state, r.ret, r.exc, r.calls, <<>>)

RefreshTopics == RefreshTopicsWith(RefreshResults)

\* a refresh cycle: refresh_topics with the results of the cycles
RefreshCycle == RefreshTopicsWith(CycleResults)

\* a refresh cycle whose RefreshData result is kept in the history, in
\* the place of the arguments
RefreshDelivers ==
    /\ UNCHANGED workerVars
    /\ \E result \in CycleResults :
         \E r \in {refresh_topics(state, server, topics, latest_values, result)} :
         /\ latest_values' = r.cache
         /\ UNCHANGED <<state, server, topics, heartbeat_interval,
                        update_notify_count, coInit, flightVars, acked>>
         /\ last' = Call("refresh_topics", <<result>>, state, r.ret, r.exc,
                         r.calls, <<>>)

\* UpdateNotify with its decorators: [ret, exc, calls, cache, count]
UpdateNotifyResult(st, srv, tp, cache, count, result) ==
    LET v == validate_connection_state("UpdateNotify", RefreshStates, st) IN
    IF v = "skip"
    THEN [ret |-> RetNone, exc |-> NoExc, calls |-> <<>>, cache |-> cache,
          count |-> count]
    ELSE IF v = "raise"
    THEN [ret |-> RetRaised, calls |-> <<>>, cache |-> cache, count |-> count,
          exc |-> handle_com_error("RTDUpdateError", "UpdateNotify",
                      InvalidStateError("UpdateNotify", RefreshStates, st))]
    ELSE LET r == refresh_topics(st, srv, tp, cache, result) IN
         [ret |-> r.ret, calls |-> r.calls, cache |-> r.cache,
          count |-> count + 1,
          exc |-> handle_com_error("RTDUpdateError", "UpdateNotify", r.exc)]

\* the provider calls UpdateNotify and RefreshData returns one of results
UpdateNotifyWith(results) ==
    /\ UNCHANGED workerVars
    /\ state = CONNECTED => update_notify_count < MaxUpdates
    /\ \E result \in results :
         \E r \in {UpdateNotifyResult(state, server, topics, latest_values,
                                       update_notify_count, result)} :
         /\ latest_values' = r.cache
         /\ update_notify_count' = r.count
         /\ UNCHANGED <<state, server, topics, heartbeat_interval, coInit,
                        flightVars, acked>>
         /\ last' = Call("UpdateNotify", <<>>, state, r.ret, r.exc, r.calls, <<>>)

UpdateNotify == UpdateNotifyWith(RefreshResults)

\* a notified refresh cycle
NotifyCycle == UpdateNotifyWith(CycleResults)

(* ------------------------------------------------------------------ *)
(* src/rtd/rtd_worker.py: RTDWorker                                   *)
(* ------------------------------------------------------------------ *)

\* the most start() calls made of the worker
MaxStarts == 2

\* refreshes the provider announces while one start() is in its loop
MaxPumped == 2

\* the symbols start() is called with, and those that start with "."
WorkerSymbols == {"SPY", ".SPY250620C530"}

OptionSymbols == {".SPY250620C530"}

\* the lists all_symbols, without repetition
SymbolLists ==
    {<<>>} \cup {<<a>> : a \in WorkerSymbols}
    \cup {l \in WorkerSymbols \X WorkerSymbols : l[1] # l[2]}

\* the quote types one pass of the retry loop subscribes for symbol
SymbolFields(symbol) ==
    IF symbol \in OptionSymbols THEN <<"GAMMA", "OPEN_INT", "VOLUME">>
    ELSE <<"LAST">>

\* what PumpWaitingMessages delivers: raw values of a refresh
WorkerValues == {"450.10", "451.25"}

WorkerResults ==
    {[shape |-> "raise", data |-> <<>>]}
    \cup {[shape |-> "data", data |-> <<<<id, v>>>>] :
            id \in RefreshIds, v \in WorkerValues}

\* faulty variant: the key names the field first
SnapshotKey_FieldFirst(symbol, quote_type) ==
    CASE symbol = "SPY" /\ quote_type = "LAST" -> "LAST:SPY"
      [] symbol = ".SPY250620C530" /\ quote_type = "GAMMA" ->
            "GAMMA:.SPY250620C530"
      [] symbol = ".SPY250620C530" /\ quote_type = "OPEN_INT" ->
            "OPEN_INT:.SPY250620C530"
      [] symbol = ".SPY250620C530" /\ quote_type = "VOLUME" ->
            "VOLUME:.SPY250620C530"

\* f"{symbol}:{quote_type}", the key of a snapshot
SnapshotKey(symbol, quote_type) ==
    CASE symbol = "SPY" /\ quote_type = "LAST" -> "SPY:LAST"
      [] symbol = ".SPY250620C530" /\ quote_type = "GAMMA" ->
            ".SPY250620C530:GAMMA"
      [] symbol = ".SPY250620C530" /\ quote_type = "OPEN_INT" ->
            ".SPY250620C530:OPEN_INT"
      [] symbol = ".SPY250620C530" /\ quote_type = "VOLUME" ->
            ".SPY250620C530:VOLUME"

\* current_data: the cache flattened to key -> quote.value
Snapshot(cache) ==
    [k \in {SnapshotKey(e[1], e[2]) : e \in DOMAIN cache} |->
        cache[CHOOSE e \in DOMAIN cache : SnapshotKey(e[1], e[2]) = k]]

\* the messages put on the queue
SnapshotMessage(data) == [kind |-> "snapshot", data |-> data]

\* {"error": ...} after failed subscriptions: one line per failed symbol,
\* "Failed to subscribe to {symbol} after 3 attempts: ..."
SubscriptionErrorMessage(failed) ==
    [kind |-> "error", text |-> "Failed to subscribe to", symbols |-> failed,
     attempts |-> 3]

\* faulty variant: the exception itself reaches the consumer
RTDErrorMessage_Raised ==
    [kind |-> "exception", text |-> "RTD Error:", symbols |-> <<>>,
     attempts |-> 0]

\* {"error": "RTD Error: ..."} of the outer except branch
RTDErrorMessage ==
    [kind |-> "error", text |-> "RTD Error:", symbols |-> <<>>, attempts |-> 0]

\* RTDClient(heartbeat_ms=...): a fresh client object
NewClient ==
    [state |-> DISCONNECTED, server |-> None, topics |-> <<>>,
     latest_values |-> <<>>, acked |-> {}, value_lock |-> 0]

\* client.initialize() run without interruption on client c by a thread
\* whose COM count is n; out is what the handshake does; inits and
\* uninits are the CoInitialize and CoUninitialize calls it makes
InitializeRun(c, n, out) ==
    IF c.state # DISCONNECTED
    THEN [client |-> c, raised |-> TRUE, com |-> n, inits |-> 0, uninits |-> 0]
    ELSE IF out = "create_raise"
    THEN [client |-> c, raised |-> TRUE, com |-> cleanup_com(n + 1),
          inits |-> 1, uninits |-> 1]
    ELSE IF out = "ok"
    THEN [client |-> [c EXCEPT !.state = CONNECTED, !.server = ServerHandle],
          raised |-> FALSE, com |-> n + 1, inits |-> 1, uninits |-> 0]
    ELSE [client |-> [c EXCEPT !.server = InitializeFailedServer(ServerHandle)],
          raised |-> TRUE, com |-> cleanup_com(n + 1),
          inits |-> 1, uninits |-> 1]

\* faulty variant: Disconnect leaves the COM context of its thread
DisconnectRun_KeepsContext(c, n) ==
    LET v == DisconnectValidation(c.state) IN
    IF v = "raise"
    THEN [client |-> c, raised |-> TRUE, com |-> n, uninits |-> 0]
    ELSE IF v = "skip"
    THEN [client |-> c, raised |-> FALSE, com |-> n, uninits |-> 0]
    ELSE [client |-> [c EXCEPT !.state = DISCONNECTED, !.server = None,
                               !.topics = cleanup_topics(c.topics),
                               !.acked = {}],
          raised |-> FALSE, com |-> n, uninits |-> 0]

\* client.Disconnect() run without interruption on client c; uninits are
\* the CoUninitialize calls it makes
DisconnectRun(c, n) ==
    LET v == DisconnectValidation(c.state) IN
    IF v = "raise"
    THEN [client |-> c, raised |-> TRUE, com |-> n, uninits |-> 0]
    ELSE IF v = "skip"
    THEN [client |-> c, raised |-> FALSE, com |-> n, uninits |-> 0]
    ELSE [client |-> [c EXCEPT !.state = DISCONNECTED, !.server = None,
                               !.topics = cleanup_topics(c.topics),
                               !.acked = {}],
          raised |-> FALSE, com |-> cleanup_com(n), uninits |-> 1]

\* the client objects without the k-th: nothing refers to it any more
Dropped(cs, k) == [j \in 1..(Len(cs) - 1) |-> IF j < k THEN cs[j] ELSE cs[j + 1]]

\* faulty variant: cleanup only releases the COM context
WorkerCleanup_ReleaseOnly(t) ==
    [client |-> wClient, clients |-> clients, com |-> cleanup_com(wCom[t]),
     disconnects |-> 0, state |-> "none", uninits |-> 1]

\* RTDWorker.cleanup() by thread t: Disconnect of the attached client and
\* self.client = None (an exception is printed and the client stays
\* attached), CoUninitialize, initialized = False.
\* [client, clients, com, disconnects, state]: state is the state the
\* client was left in
WorkerCleanup(t) ==
    IF wClient = 0
    THEN [client |-> 0, clients |-> clients, com |-> cleanup_com(wCom[t]),
          disconnects |-> 0, state |-> "none", uninits |-> 1]
    ELSE LET r == DisconnectRun(clients[wClient], wCom[t]) IN
         [client |-> IF r.raised THEN wClient ELSE 0,
          clients |-> IF r.raised THEN clients ELSE Dropped(clients, wClient),
          com |-> cleanup_com(r.com), disconnects |-> 1,
          state |-> r.client.state, uninits |-> r.uninits + 1]

\* start(all_symbols) is called on thread t: cleanup of the previous
\* instance when initialized is set, then CoInitialize
WorkerStart(t, all_symbols) ==
    /\ thr[t].pc = "idle"
    /\ starts < MaxStarts
    /\ starts' = starts + 1
    /\ \E r \in {IF wInitialized THEN WorkerCleanup(t)
                 ELSE [client |-> wClient, clients |-> clients,
                       com |-> wCom[t], disconnects |-> 0, state |-> "none",
                       uninits |-> 0]} :
         /\ wClient' = r.client
         /\ clients' = r.clients
         /\ wCom' = [wCom EXCEPT ![t] = r.com + 1]
         /\ thr' = [thr EXCEPT ![t] =
                      [IdleThread EXCEPT !.pc = "create",
                                         !.symbols = all_symbols,
                                         !.attempts = [k \in DOMAIN all_symbols |-> 0],
                                         !.raises = [k \in DOMAIN all_symbols |-> 0],
                                         !.cleanups = IF wInitialized THEN 1 ELSE 0,
                                         !.releases = IF wInitialized THEN 1 ELSE 0,
                                         !.coinits = 1,
                                         !.couninits = r.uninits,
                                         !.disconnects = r.disconnects]]
    /\ wInitialized' = FALSE
    /\ UNCHANGED <<soloVars, queue, stop_event>>

\* start() on the first thread
Start == \E all_symbols \in SymbolLists : WorkerStart(1, all_symbols)

\* start() as the dashboard calls it: with the one base symbol
StartBase == WorkerStart(1, <<"SPY">>)

\* the first start(), with the base symbol and an option of it
StartPair == starts = 0 /\ WorkerStart(1, <<"SPY", ".SPY250620C530">>)

\* start() on either of two threads, which may overlap; with no symbols
\* start() returns once its client is initialized
StartOverlapping == \E t \in Threads : WorkerStart(t, <<>>)

\* the client objects after self.client is assigned a new one: the one it
\* referred to is unreferenced, and stays only while the provider holds it
Replaced(cs, k) ==
    IF k # 0 /\ cs[k].state = DISCONNECTED THEN Dropped(cs, k) ELSE cs

\* self.client = RTDClient(...): the constructor returns or raises
WorkerCreate ==
    \E t \in Threads, out \in {"ok", "raise"} :
      /\ thr[t].pc = "create"
      /\ IF out = "ok"
         THEN \E kept \in {Replaced(clients, wClient)} :
                /\ clients' = Append(kept, NewClient)
                /\ wClient' = Len(kept) + 1
              /\ thr' = [thr EXCEPT ![t].pc = "initialize"]
         ELSE /\ thr' = [thr EXCEPT ![t].pc = "except", ![t].path = "create"]
              /\ UNCHANGED <<clients, wClient>>
      /\ UNCHANGED <<soloVars, wInitialized, wCom, queue, stop_event, starts>>

\* self.client.initialize()
WorkerInitialize ==
    \E t \in Threads, out \in {"create_raise", "ok", "refuse", "raise"} :
      /\ thr[t].pc = "initialize"
      /\ IF wClient = 0
         THEN /\ thr' = [thr EXCEPT ![t].pc = "except", ![t].path = "initialize"]
              /\ UNCHANGED <<clients, wCom>>
         ELSE \E r \in {InitializeRun(clients[wClient], wCom[t], out)} :
                /\ clients' = [clients EXCEPT ![wClient] = r.client]
                /\ wCom' = [wCom EXCEPT ![t] = r.com]
                /\ thr' = IF r.raised
                          THEN [thr EXCEPT ![t].pc = "except",
                                           ![t].path = "initialize",
                                           ![t].coinits = @ + r.inits,
                                           ![t].couninits = @ + r.uninits]
                          ELSE [thr EXCEPT ![t].pc = "initialized",
                                           ![t].coinits = @ + r.inits]
      /\ UNCHANGED <<soloVars, wClient, wInitialized, queue, stop_event, starts>>

\* self.initialized = True, and the return for an empty list
WorkerInitialized ==
    \E t \in Threads :
      /\ thr[t].pc = "initialized"
      /\ wInitialized' = TRUE
      /\ thr' = IF thr[t].symbols = <<>>
                THEN [thr EXCEPT ![t].pc = "finally", ![t].path = "empty"]
                ELSE [thr EXCEPT ![t].pc = "subscribe", ![t].i = 1]
      /\ UNCHANGED <<soloVars, wClient, clients, wCom, queue, stop_event, starts>>

RECURSIVE AttemptRun(_, _, _, _, _)
\* one pass of the retry loop for symbol on client c: the subscribe calls
\* for fields[k..] in turn, left at the first that raises
AttemptRun(c, symbol, fields, outs, k) ==
    IF k > Len(fields) THEN [client |-> c, raised |-> FALSE]
    ELSE LET r == subscribe(c.state, c.server, c.topics, c.acked,
                            fields[k], symbol, outs[k])
             after == [c EXCEPT !.topics = r.topics, !.acked = r.acked]
         IN  IF r.exc # NoExc THEN [client |-> after, raised |-> TRUE]
             ELSE AttemptRun(after, symbol, fields, outs, k + 1)

\* the number of passes of the retry loop for one symbol
MaxAttempts == 3

\* faulty variant: the first exception gives the symbol up
AfterAttempt_OnePass(w, raised) ==
    LET counted == [w EXCEPT !.attempts[w.i] = @ + 1,
                             !.raises[w.i] = IF raised THEN @ + 1 ELSE @]
        next == [counted EXCEPT !.i = @ + 1, !.retry_count = 0,
                                !.pc = IF w.i = Len(w.symbols)
                                       THEN "subscribed" ELSE "subscribe"]
    IN  IF ~raised THEN next
        ELSE [next EXCEPT !.subscription_errors = Append(@, w.symbols[w.i])]

\* a thread's locals after a pass for symbols[i] that raised or did not:
\* retry_count, subscription_errors, and the next symbol or the end
AfterAttempt(w, raised) ==
    LET counted == [w EXCEPT !.attempts[w.i] = @ + 1,
                             !.raises[w.i] = IF raised THEN @ + 1 ELSE @]
        next == [counted EXCEPT !.i = @ + 1, !.retry_count = 0,
                                !.pc = IF w.i = Len(w.symbols)
                                       THEN "subscribed" ELSE "subscribe"]
    IN  IF ~raised THEN next
        ELSE IF w.retry_count + 1 = MaxAttempts
        THEN [next EXCEPT !.subscription_errors = Append(@, w.symbols[w.i])]
        ELSE [counted EXCEPT !.retry_count = @ + 1]

\* one pass of `while retry_count < 3` for the current symbol
WorkerAttempt ==
    \E t \in Threads :
      /\ thr[t].pc = "subscribe"
      /\ LET symbol == thr[t].symbols[thr[t].i]
             fields == SymbolFields(symbol) IN
         IF wClient = 0
         THEN /\ thr' = [thr EXCEPT ![t] = AfterAttempt(thr[t], TRUE)]
              /\ UNCHANGED clients
         ELSE \E outs \in [DOMAIN fields -> ProviderOutcomes] :
                \E r \in {AttemptRun(clients[wClient], symbol, fields, outs, 1)} :
                  /\ clients' = [clients EXCEPT ![wClient] = r.client]
                  /\ thr' = [thr EXCEPT ![t] = AfterAttempt(thr[t], r.raised)]
      /\ UNCHANGED <<soloVars, wClient, wInitialized, wCom, queue, stop_event,
                     starts>>

\* after the subscriptions: the aggregated error and return, or the loop
WorkerSubscribed ==
    \E t \in Threads :
      /\ thr[t].pc = "subscribed"
      /\ IF thr[t].subscription_errors # <<>>
         THEN /\ queue' = Append(queue,
                     SubscriptionErrorMessage(thr[t].subscription_errors))
              /\ thr' = [thr EXCEPT ![t].pc = "finally",
                                    ![t].path = "subscription",
                                    ![t].errors = @ + 1,
                                    ![t].posted = Append(@,
                                        SubscriptionErrorMessage(
                                            thr[t].subscription_errors))]
         ELSE /\ thr' = [thr EXCEPT ![t].pc = "loop", ![t].looped = TRUE,
                                    ![t].last_data = <<>>]
              /\ UNCHANGED queue
      /\ UNCHANGED <<soloVars, wClient, wInitialized, clients, wCom,
                     stop_event, starts>>

\* faulty variant: the loop does not look at the stop signal
LoopCondition_True(stop) == TRUE

\* `not self.stop_event.is_set()`
LoopCondition(stop) == ~stop

\* `while not self.stop_event.is_set()`
WorkerLoop ==
    \E t \in Threads :
      /\ thr[t].pc = "loop"
      /\ thr' = IF LoopCondition(stop_event)
                THEN [thr EXCEPT ![t].pc = "pump"]
                ELSE [thr EXCEPT ![t].pc = "finally", ![t].path = "stop"]
      /\ UNCHANGED <<soloVars, wClient, wInitialized, clients, wCom, queue,
                     stop_event, starts>>

\* pythoncom.PumpWaitingMessages(): nothing waits, the provider's
\* UpdateNotify callback runs on the attached client, or the call raises
WorkerPump ==
    \E t \in Threads :
      /\ thr[t].pc = "pump"
      /\ \/ /\ thr' = [thr EXCEPT ![t].pc = "poll"]
            /\ UNCHANGED clients
         \/ /\ thr' = [thr EXCEPT ![t].pc = "except", ![t].path = "loop"]
            /\ UNCHANGED clients
         \/ /\ wClient # 0
            /\ thr[t].pumped < MaxPumped
            /\ \E result \in WorkerResults :
                 LET c == clients[wClient]
                     r == UpdateNotifyResult(c.state, c.server, c.topics,
                                             c.latest_values, 0, result)
                 IN  clients' = [clients EXCEPT ![wClient].latest_values = r.cache]
            /\ thr' = [thr EXCEPT ![t].pc = "poll", ![t].pumped = @ + 1]
      /\ UNCHANGED <<soloVars, wClient, wInitialized, wCom, queue, stop_event,
                     starts>>

\* faulty variant: every poll posts
SnapshotChanged_Always(current_data, last_data) == TRUE

\* `current_data != last_data`
SnapshotChanged(current_data, last_data) == current_data # last_data

\* the inner try of the loop up to the comparison: current_data is built
\* when the cache is not empty, and posted when it differs from last_data;
\* an exception (no client attached) is logged
WorkerPoll ==
    \E t \in Threads :
      /\ thr[t].pc = "poll"
      /\ thr' =
           IF wClient = 0 \/ clients[wClient].latest_values = <<>>
           THEN [thr EXCEPT ![t].pc = "loop"]
           ELSE LET current_data == Snapshot(clients[wClient].latest_values) IN
                IF SnapshotChanged(current_data, thr[t].last_data)
                THEN [thr EXCEPT ![t].pc = "drain",
                                 ![t].current_data = current_data]
                ELSE [thr EXCEPT ![t].pc = "loop",
                                 ![t].current_data = current_data,
                                 ![t].skipped = TRUE]
      /\ UNCHANGED <<soloVars, wClient, wInitialized, clients, wCom, queue,
                     stop_event, starts>>

\* faulty variant: the cache is written without waiting for the lock
ValueLockFree_Ignored(holder) == TRUE

\* `with self._value_lock` can be entered: no thread holds the lock
ValueLockFree(holder) == holder = 0

\* the inner try of the loop, step by step: `with self.client._value_lock`
\* is entered and the cache is tested; an empty cache ends the pass, and
\* with no client attached the exception is logged
PollAcquire ==
    \E t \in Threads :
      /\ thr[t].pc = "poll"
      /\ IF wClient = 0
         THEN /\ thr' = [thr EXCEPT ![t].pc = "loop"]
              /\ UNCHANGED clients
         ELSE /\ ValueLockFree(clients[wClient].value_lock)
              /\ IF clients[wClient].latest_values = <<>>
                 THEN /\ thr' = [thr EXCEPT ![t].pc = "loop"]
                      /\ UNCHANGED clients
                 ELSE /\ thr' = [thr EXCEPT
                                  ![t].pc = "copy",
                                  ![t].current_data = <<>>,
                                  ![t].cursor =
                                      DOMAIN clients[wClient].latest_values]
                      /\ clients' = [clients EXCEPT ![wClient].value_lock = t]
      /\ UNCHANGED <<soloVars, wClient, wInitialized, wCom, queue, stop_event,
                     starts>>

\* one pass of `for topic_str, quote in self.client._latest_values.items()`
PollCopy ==
    \E t \in Threads :
      /\ thr[t].pc = "copy"
      /\ \E e \in thr[t].cursor :
           thr' = [thr EXCEPT
                     ![t].cursor = @ \ {e},
                     ![t].current_data =
                         Put(@, SnapshotKey(e[1], e[2]),
                             clients[wClient].latest_values[e])]
      /\ UNCHANGED <<soloVars, wClient, wInitialized, clients, wCom, queue,
                     stop_event, starts>>

\* the iteration is over: `current_data != last_data`; an unchanged
\* snapshot leaves the with block
PollCompare ==
    \E t \in Threads :
      /\ thr[t].pc = "copy"
      /\ thr[t].cursor = {}
      /\ IF SnapshotChanged(thr[t].current_data, thr[t].last_data)
         THEN /\ thr' = [thr EXCEPT ![t].pc = "drain"]
              /\ UNCHANGED clients
         ELSE /\ thr' = [thr EXCEPT ![t].pc = "loop", ![t].skipped = TRUE]
              /\ clients' = [clients EXCEPT ![wClient].value_lock = 0]
      /\ UNCHANGED <<soloVars, wClient, wInitialized, wCom, queue, stop_event,
                     starts>>

\* refresh_topics runs for the worker's client on the second thread while
\* start() is in its loop on the first: _handle_quote_update stores the
\* value it was given inside `with self._value_lock`
ConcurrentRefresh ==
    /\ wClient # 0
    /\ thr[1].pc \in {"loop", "pump", "poll", "copy", "drain"}
    /\ thr[2].pc = "idle"
    /\ thr[2].pumped < MaxPumped
    /\ \E result \in WorkerResults :
         LET c == clients[wClient]
             r == refresh_topics(c.state, c.server, c.topics,
                                 c.latest_values, result)
         IN  /\ result.shape = "data" => ValueLockFree(c.value_lock)
             /\ clients' = [clients EXCEPT ![wClient].latest_values = r.cache]
    /\ thr' = [thr EXCEPT ![2].pumped = @ + 1]
    /\ UNCHANGED <<soloVars, wClient, wInitialized, wCom, queue, stop_event,
                   starts>>

\* faulty variant: the put does not wait for the queue to be empty
Drained_Always(q) == TRUE

\* `while not self.data_queue.empty()` is left
Drained(q) == q = <<>>

\* one pass of `while not self.data_queue.empty(): get_nowait()`
WorkerDrain ==
    \E t \in Threads :
      /\ thr[t].pc = "drain"
      /\ ~Drained(queue)
      /\ queue' = Tail(queue)
      /\ thr' = [thr EXCEPT ![t].discarded = 1]
      /\ UNCHANGED <<soloVars, wClient, wInitialized, clients, wCom,
                     stop_event, starts>>

\* the queue is found empty: put(current_data), last_data = copy, and
\* the `with self.client._value_lock` block is left
WorkerPut ==
    \E t \in Threads :
      /\ thr[t].pc = "drain"
      /\ Drained(queue)
      /\ queue' = Append(queue, SnapshotMessage(thr[t].current_data))
      /\ thr' = [thr EXCEPT ![t].pc = "loop",
                            ![t].last_data = thr[t].current_data,
                            ![t].snapshots = @ + 1,
                            ![t].skipped = FALSE,
                            ![t].posted = Append(@,
                                SnapshotMessage(thr[t].current_data)),
                            ![t].afterStop = IF stop_event THEN @ + 1 ELSE @]
      /\ clients' = IF wClient = 0 THEN clients
                    ELSE [clients EXCEPT ![wClient].value_lock = 0]
      /\ UNCHANGED <<soloVars, wClient, wInitialized, wCom, stop_event, starts>>

\* the outer except branch: {"error": "RTD Error: ..."} is put
WorkerExcept ==
    \E t \in Threads :
      /\ thr[t].pc = "except"
      /\ queue' = Append(queue, RTDErrorMessage)
      /\ thr' = [thr EXCEPT ![t].pc = "finally", ![t].errors = @ + 1,
                            ![t].posted = Append(@, RTDErrorMessage)]
      /\ UNCHANGED <<soloVars, wClient, wInitialized, clients, wCom,
                     stop_event, starts>>

\* the finally branch: cleanup(), and start() returns
WorkerFinally ==
    \E t \in Threads :
      /\ thr[t].pc = "finally"
      /\ \E r \in {WorkerCleanup(t)} :
           /\ wClient' = r.client
           /\ clients' = r.clients
           /\ wCom' = [wCom EXCEPT ![t] = r.com]
           /\ thr' = [thr EXCEPT ![t].pc = "idle",
                                 ![t].cleanups = @ + 1,
                                 ![t].releases = @ + 1,
                                 ![t].couninits = @ + r.uninits,
                                 ![t].disconnects = @ + r.disconnects,
                                 ![t].left = r.state]
      /\ wInitialized' = FALSE
      /\ UNCHANGED <<soloVars, queue, stop_event, starts>>

\* the presentation layer sets the stop signal
SetStop ==
    /\ ~stop_event
    /\ stop_event' = TRUE
    /\ UNCHANGED <<soloVars, wClient, wInitialized, clients, wCom, queue,
                   starts, thr>>

\* the presentation layer: `if not data_queue.empty(): data_queue.get()`
Consume ==
    /\ queue # <<>>
    /\ queue' = Tail(queue)
    /\ UNCHANGED <<soloVars, wClient, wInitialized, clients, wCom,
                   stop_event, starts, thr>>

(* ------------------------------------------------------------------ *)
(* Calls in progress: provider calls that take time, the locks held   *)
(* across them, and callbacks the provider delivers meanwhile         *)
(* ------------------------------------------------------------------ *)

\* the names of the three locks of the Client
ClientLocks == {"_lock", "_topic_lock", "_value_lock"}

\* the provider calls made on the server handle
ProviderCalls ==
    {"ConnectData", "DisconnectData", "RefreshData", "Heartbeat",
     "ServerTerminate"}

\* the locks of the Client that operation op holds while it makes the
\* provider call fn: ConnectData and DisconnectData are made inside
\* `with self._topic_lock`, and the whole body of Disconnect, its
\* unsubscriptions and ServerTerminate included, inside `with self._lock`
LocksHeld(op, fn) ==
    (IF fn \in {"ConnectData", "DisconnectData"} THEN {"_topic_lock"} ELSE {})
    \cup
    (IF op = "Disconnect" /\ fn \in {"DisconnectData", "ServerTerminate"}
     THEN {"_lock"} ELSE {})

\* the variables of the Disconnect() that runs in steps of its own
discVars == <<pcDisc, discTodo, discCalls, discWas, discFrom, discWaiting>>

\* a call of the client that is inside the provider call fn (waits = ""),
\* or that waits for the lock `waits` before it makes that call; held are
\* the locks of the client it holds, id and todo its topic id and, for
\* Disconnect, the subscriptions it has still to unsubscribe
Frame(op, fn, id, todo, held, waits) ==
    [op |-> op, fn |-> fn, id |-> id, todo |-> todo, held |-> held,
     waits |-> waits]

\* the locks the calls in progress on thread c hold
HeldBy(c) == UNION {stack[c][i].held : i \in DOMAIN stack[c]}

\* threading.Lock: the lock can be acquired when no call holds it, the
\* calls of the acquiring thread included
LockFree(lock) == \A c \in Threads : lock \notin HeldBy(c)

\* the innermost call in progress on thread c
Top(c) == stack[c][Len(stack[c])]

\* the calls in progress on thread c beneath the innermost
Below(c) == SubSeq(stack[c], 1, Len(stack[c]) - 1)

\* thread c is inside a provider call: the provider can call back into
\* the client in the same context
InProviderCall(c) == stack[c] # <<>> /\ Top(c).waits = ""

\* thread c waits for a lock
Waiting(c) == stack[c] # <<>> /\ Top(c).waits # ""

\* subscribe() on thread c up to server.ConnectData: the state check, the
\* topic lock, the id, the test of the table
SubscribeEnter(c) ==
    /\ stack[c] = <<>>
    /\ validate_connection_state("subscribe", SubscribeStates, state) = "run"
    /\ LockFree("_topic_lock")
    /\ server # None
    /\ \E req \in Requests :
         /\ validate_quote_type(req[1]) # {}
         /\ ~AlreadySubscribed(topics, generate_topic_id(req[1], req[2]))
         /\ stack' = [stack EXCEPT ![c] =
                <<Frame("subscribe", "ConnectData",
                        generate_topic_id(req[1], req[2]),
                        {<<req[1], req[2]>>},
                        LocksHeld("subscribe", "ConnectData"), "")>>]
    /\ UNCHANGED <<workerVars, clientVars, pcInit, discVars, acked, last>>

\* unsubscribe() on thread c up to server.DisconnectData
UnsubscribeEnter(c) ==
    /\ stack[c] = <<>>
    /\ validate_connection_state("unsubscribe", UnsubscribeStates, state) = "run"
    /\ LockFree("_topic_lock")
    /\ server # None
    /\ \E req \in Requests :
         /\ validate_quote_type(req[1]) # {}
         /\ find_topic_id(topics, req[2], req[1]) # {}
         /\ stack' = [stack EXCEPT ![c] =
                <<Frame("unsubscribe", "DisconnectData",
                        CHOOSE id \in find_topic_id(topics, req[2], req[1]) : TRUE,
                        {<<req[1], req[2]>>},
                        LocksHeld("unsubscribe", "DisconnectData"), "")>>]
    /\ UNCHANGED <<workerVars, clientVars, pcInit, discVars, acked, last>>

\* Disconnect() is called on thread c, by its caller or by the provider
\* while thread c is inside a provider call: the state validation, then
\* `with self._lock`
DisconnectEnter(c) ==
    /\ stack[c] = <<>> \/ InProviderCall(c)
    /\ DisconnectValidation(state) = "run"
    /\ stack' = [stack EXCEPT ![c] =
           Append(@, Frame("Disconnect", "", 0, {}, {}, "_lock"))]
    /\ UNCHANGED <<workerVars, clientVars, pcInit, discVars, acked, last>>

\* Disconnect on thread c goes on with the subscriptions todo, the calls
\* beneath it being below: the next unsubscribe wants the topic lock;
\* after the last one the table is cleared and ServerTerminate is called;
\* without a server handle Disconnect completes.  st is the state while
\* Disconnect is not complete, tp and ak the table and the provider's side.
DisconnectContinue(c, below, st, tp, ak, todo) ==
    IF todo # {}
    THEN /\ stack' = [stack EXCEPT ![c] =
                Append(below, Frame("Disconnect", "DisconnectData", 0, todo,
                                    {"_lock"}, "_topic_lock"))]
         /\ state' = st
         /\ topics' = tp
         /\ acked' = ak
         /\ UNCHANGED <<server, coInit>>
    ELSE IF server # None
    THEN /\ stack' = [stack EXCEPT ![c] =
                Append(below, Frame("Disconnect", "ServerTerminate", 0, {},
                                    LocksHeld("Disconnect", "ServerTerminate"),
                                    ""))]
         /\ state' = st
         /\ topics' = cleanup_topics(tp)
         /\ acked' = ak
         /\ UNCHANGED <<server, coInit>>
    ELSE /\ stack' = [stack EXCEPT ![c] = below]
         /\ state' = DISCONNECTED
         /\ topics' = cleanup_topics(tp)
         /\ acked' = ak
         /\ coInit' = cleanup_com(coInit)
         /\ UNCHANGED server

\* the call of thread c that waits for a lock gets it.  Disconnect with
\* _lock: the two early returns, or DISCONNECTING and the list of
\* subscriptions.  Disconnect with _topic_lock: one unsubscribe of its
\* batch up to DisconnectData; an unsubscribe that is refused by the state
\* check or finds no topic or no server makes no provider call.
Acquire(c) ==
    /\ Waiting(c)
    /\ LockFree(Top(c).waits)
    /\ UNCHANGED <<workerVars, latest_values, heartbeat_interval,
                   update_notify_count, pcInit, discVars, last>>
    /\ IF Top(c).waits = "_lock"
       THEN IF state \in {DISCONNECTED, DISCONNECTING}
            THEN /\ stack' = [stack EXCEPT ![c] = Below(c)]
                 /\ UNCHANGED <<state, server, topics, coInit, acked>>
            ELSE DisconnectContinue(c, Below(c), DISCONNECTING, topics, acked,
                     {<<topics[id][2], topics[id][1]>> : id \in DOMAIN topics})
       ELSE \E req \in Top(c).todo :
              LET found == find_topic_id(topics, req[2], req[1])
                  v == validate_connection_state("unsubscribe",
                                                 UnsubscribeStates, state)
              IN  IF v # "run" \/ found = {} \/ server = None
                  THEN DisconnectContinue(c, Below(c), state, topics, acked,
                                          Top(c).todo \ {req})
                  ELSE /\ stack' = [stack EXCEPT ![c] =
                              Append(Below(c),
                                     Frame("Disconnect", "DisconnectData",
                                           CHOOSE id \in found : TRUE,
                                           Top(c).todo \ {req},
                                           LocksHeld("Disconnect",
                                                     "DisconnectData"), ""))]
                       /\ UNCHANGED <<state, server, topics, coInit, acked>>

\* the provider call thread c is inside returns, refuses or raises, and
\* the call that made it goes on to its end (or, for Disconnect, to its
\* next provider call): subscribe stores the pair when ConnectData
\* accepted; unsubscribe deletes the id when DisconnectData succeeded (a
\* KeyError for an id that is gone is caught); Disconnect drops the
\* handle, releases COM and sets DISCONNECTED after ServerTerminate
ProviderReturns(c) ==
    /\ InProviderCall(c)
    /\ Top(c).op \in {"subscribe", "unsubscribe", "Disconnect"}
    /\ UNCHANGED <<workerVars, latest_values, heartbeat_interval,
                   update_notify_count, pcInit, discVars, last>>
    /\ \E out \in ProviderOutcomes :
         LET f == Top(c)
             deleted == out # "raise" /\ DisconnectDataSucceeded(out)
                        /\ f.id \in DOMAIN topics
         IN
         IF f.op = "subscribe"
         THEN /\ stack' = [stack EXCEPT ![c] = Below(c)]
              /\ topics' = IF out # "raise" /\ ConnectDataAccepted(out)
                           THEN Put(topics, f.id,
                                    CHOOSE e \in {<<r[2], r[1]>> : r \in f.todo} :
                                        TRUE)
                           ELSE topics
              /\ acked' = IF out = "ok" THEN acked \cup {f.id} ELSE acked
              /\ UNCHANGED <<state, server, coInit>>
         ELSE IF f.op = "unsubscribe"
         THEN /\ stack' = [stack EXCEPT ![c] = Below(c)]
              /\ topics' = IF deleted THEN Del(topics, f.id) ELSE topics
              /\ acked' = IF out = "ok" THEN acked \ {f.id} ELSE acked
              /\ UNCHANGED <<state, server, coInit>>
         ELSE IF f.fn = "DisconnectData"
         THEN DisconnectContinue(c, Below(c), state,
                                 IF deleted THEN Del(topics, f.id) ELSE topics,
                                 IF out = "ok" THEN acked \ {f.id} ELSE acked,
                                 f.todo)
         ELSE /\ stack' = [stack EXCEPT ![c] = Below(c)]
              /\ server' = None
              /\ coInit' = cleanup_com(coInit)
              /\ state' = DISCONNECTED
              /\ acked' = {}
              /\ UNCHANGED topics

\* initialize() on thread c, after CreateObject, up to
\* server.ServerStart(self); without a handle the call raises at once
ServerStartEnter(c) ==
    /\ pcInit = "start"
    /\ stack[c] = <<>>
    /\ \A d \in Threads : \A i \in DOMAIN stack[d] : stack[d][i].op # "initialize"
    /\ UNCHANGED <<workerVars, topics, latest_values, update_notify_count,
                   discVars, acked>>
    /\ IF server = None
       THEN /\ InitializeFailed([cls |-> "AttributeError"],
                                <<PCall("CreateObject", "ok")>>, coInit)
            /\ UNCHANGED stack
       ELSE /\ stack' = [stack EXCEPT ![c] =
                   <<Frame("initialize", "ServerStart", 0, {}, {}, "")>>]
            /\ UNCHANGED <<state, server, heartbeat_interval, coInit, pcInit,
                           last>>

\* ServerStart returns to initialize() on thread c: result 1, another
\* result, or an exception
ServerStartReturns(c) ==
    /\ InProviderCall(c)
    /\ Top(c).op = "initialize"
    /\ stack' = [stack EXCEPT ![c] = Below(c)]
    /\ UNCHANGED <<workerVars, topics, latest_values, update_notify_count,
                   discVars, acked>>
    /\ \E out \in ProviderOutcomes :
         LET calls == <<PCall("CreateObject", "ok"), PCall("ServerStart", out)>>
         IN  IF out = "ok"
             THEN /\ state' = CONNECTED
                  /\ heartbeat_interval' = DefaultHeartbeat
                  /\ pcInit' = "idle"
                  /\ UNCHANGED <<server, coInit>>
                  /\ last' = Call("initialize", <<>>, DISCONNECTED, RetNone,
                                  NoExc, calls, <<>>)
             ELSE InitializeFailed(IF out = "refuse"
                                   THEN [cls |-> "RTDServerError"]
                                   ELSE [cls |-> "COMError"],
                                   calls, coInit)

\* the calls in progress, on either thread
CallSteps ==
    \E c \in Threads :
        \/ SubscribeEnter(c)
        \/ UnsubscribeEnter(c)
        \/ DisconnectEnter(c)
        \/ Acquire(c)
        \/ ProviderReturns(c)
        \/ ServerStartEnter(c)
        \/ ServerStartReturns(c)

(* ------------------------------------------------------------------ *)
(* Calls of the conversions                                           *)
(* ------------------------------------------------------------------ *)

\* a Quote: its value as a set (empty for None), and whether the except
\* branch of a conversion ran on the way
RetQuote(value, parse_failed) ==
    [kind |-> "quote", value |-> value, parse_failed |-> parse_failed]

\* the quote types and raw values Quote is constructed with
QuoteKinds == FloatKinds \cup IntKinds \cup {"IMPL_VOL"}

QuoteRawValues ==
    {None, "N/A", "!N/A", "", " ", "450.10", "451.25", "37.50%", "109'080",
     "inf"}

\* topic.generate_topic_id(quote_type, symbol) is called
GenerateTopicId ==
    /\ UNCHANGED <<workerVars, clientVars, flightVars, acked>>
    /\ \E req \in TopicInputs :
         last' = Call("generate_topic_id", <<req[1], req[2]>>, state,
                      RetId(generate_topic_id(req[1], req[2])), NoExc,
                      <<>>, <<>>)

\* Quote(quote_type, symbol, value) is constructed
NewQuote ==
    /\ UNCHANGED <<workerVars, clientVars, flightVars, acked>>
    /\ \E quote_type \in QuoteKinds, value \in QuoteRawValues :
         last' = IF QuoteRaises(quote_type, value)
                 THEN Call("Quote", <<quote_type, value>>, state, RetRaised,
                           [cls |-> "OverflowError"], <<>>, <<>>)
                 ELSE Call("Quote", <<quote_type, value>>, state,
                           RetQuote(QuoteProcessValue(quote_type, value),
                                    QuoteParseFailed(quote_type, value)),
                           NoExc, <<>>, <<>>)

(* ------------------------------------------------------------------ *)
(* Specifications                                                     *)
(* ------------------------------------------------------------------ *)

\* the client under its single operations and the provider's callbacks
Next ==
    \/ Initialize
    \/ InitCreate
    \/ InitStart
    \/ CheckHeartbeat
    \/ Subscribe
    \/ Unsubscribe
    \/ RefreshTopics
    \/ UpdateNotify
    \/ Disconnect
    \/ DisconnectAcquire
    \/ DiscUnsubscribe
    \/ DiscTerminate

Spec == Init /\ [][Next]_vars

\* the client under its batch operations, up to its first Disconnect
NextBatch ==
    \/ Initialize
    \/ InitCreate
    \/ InitStart
    \/ BatchSubscribe
    \/ BatchUnsubscribe

SpecBatch == Init /\ [][NextBatch]_vars

\* the client under refresh cycles, up to its first Disconnect
NextRefresh ==
    \/ Initialize
    \/ InitCreate
    \/ InitStart
    \/ Subscribe
    \/ RefreshCycle
    \/ NotifyCycle

SpecRefresh == Init /\ [][NextRefresh]_vars

\* the cache under subscriptions, unsubscriptions and refresh cycles
NextCache ==
    \/ Initialize
    \/ InitCreate
    \/ InitStart
    \/ Subscribe
    \/ Unsubscribe
    \/ RefreshDelivers

SpecCache == Init /\ [][NextCache]_vars

\* the conversions called on their own and by subscribe
NextConversions ==
    \/ GenerateTopicId
    \/ NewQuote
    \/ Initialize
    \/ InitCreate
    \/ InitStart
    \/ Subscribe

SpecConversions == Init /\ [][NextConversions]_vars

\* the client used by two threads, its provider calls taking time, with
\* the notifications the provider delivers meanwhile
NextCalls ==
    \/ Initialize
    \/ InitCreate
    \/ CallSteps
    \/ UpdateNotify

SpecCalls == Init /\ [][NextCalls]_vars

\* the steps of the start() threads
WorkerSteps ==
    \/ WorkerCreate
    \/ WorkerInitialize
    \/ WorkerInitialized
    \/ WorkerAttempt
    \/ WorkerSubscribed
    \/ WorkerLoop
    \/ WorkerPump
    \/ WorkerPoll
    \/ WorkerDrain
    \/ WorkerPut
    \/ WorkerExcept
    \/ WorkerFinally

\* one worker whose start() is called by one thread, again after it has
\* returned, with the consumer of its queue and the stop signal
NextWorker ==
    \/ Start
    \/ WorkerSteps
    \/ SetStop
    \/ Consume

SpecWorker == Init /\ [][NextWorker]_vars

\* the worker started with the base symbol, whose thread keeps running:
\* PumpWaitingMessages returns and the sleeps of the loop end
NextWorkerLive ==
    \/ StartBase
    \/ WorkerSteps
    \/ SetStop
    \/ Consume

SpecWorkerLive == Init /\ [][NextWorkerLive]_vars /\ WF_vars(WorkerSteps)

\* the worker in its loop, its polling pass taken step by step, while the
\* second thread refreshes the worker's client
NextSnapshot ==
    \/ StartPair
    \/ WorkerCreate
    \/ WorkerInitialize
    \/ WorkerInitialized
    \/ WorkerAttempt
    \/ WorkerSubscribed
    \/ WorkerLoop
    \/ WorkerPump
    \/ PollAcquire
    \/ PollCopy
    \/ PollCompare
    \/ WorkerDrain
    \/ WorkerPut
    \/ WorkerExcept
    \/ WorkerFinally
    \/ ConcurrentRefresh

SpecSnapshot == Init /\ [][NextSnapshot]_vars

\* one worker whose start() is called by two threads: the steps of
\* start() up to its return for an empty list, and its ways out
NextOverlap ==
    \/ StartOverlapping
    \/ WorkerCreate
    \/ WorkerInitialize
    \/ WorkerInitialized
    \/ WorkerExcept
    \/ WorkerFinally
    \/ Consume

SpecOverlap == Init /\ [][NextOverlap]_vars

(* ------------------------------------------------------------------ *)
(* Properties                                                         *)
(* ------------------------------------------------------------------ *)

\* the recorded call is one of the methods `ops`, made in state st
CalledIn(ops, st) == last.op \in ops /\ last.was = st

\* the recorded call returned None silently and did nothing
SilentNoOp ==
    /\ last.ret = RetNone
    /\ last.exc = NoExc
    /\ last.calls = <<>>
    /\ last.changed = {}

\* the number of ServerTerminate calls among calls
Terminations(calls) ==
    Cardinality({i \in DOMAIN calls : calls[i].fn = "ServerTerminate"})

\* C1: of two Disconnect() calls in sequence, the second, made when the
\* state is already DISCONNECTING or DISCONNECTED, returns silently without
\* raising, and the two invoke ServerTerminate at most once in total.
C1_DisconnectIdempotent ==
    [][(/\ last.op = "Disconnect"
        /\ last'.op = "Disconnect"
        /\ last' # last
        /\ last'.was \in {DISCONNECTING, DISCONNECTED})
       => (/\ last'.exc = NoExc
           /\ last'.ret = RetNone
           /\ Terminations(last.calls) + Terminations(last'.calls) <= 1)]_vars

\* C2: subscribe, unsubscribe, refresh_topics and UpdateNotify called in
\* CONNECTING raise RTDConnectionError naming the method and the expected
\* and actual state, make no provider call and change nothing.
C2_ConnectingRaisesConnectionError ==
    CalledIn({"subscribe", "unsubscribe", "refresh_topics", "UpdateNotify"},
             CONNECTING)
    => /\ last.exc.cls = "RTDConnectionError"
       /\ last.exc.func = last.op
       /\ last.calls = <<>>
       /\ last.changed = {}

\* C3 as stated: every one of initialize, subscribe, refresh_topics,
\* UpdateNotify, check_heartbeat and Disconnect called in DISCONNECTING
\* returns silently, makes no provider call and changes nothing.
C3_DisconnectingAllSilent ==
    CalledIn({"initialize", "subscribe", "refresh_topics", "UpdateNotify",
              "check_heartbeat", "Disconnect"}, DISCONNECTING)
    => SilentNoOp

\* C3: subscribe, refresh_topics, UpdateNotify, check_heartbeat and
\* Disconnect called in DISCONNECTING return silently, make no provider
\* call and change nothing; initialize called in DISCONNECTING raises,
\* also without a provider call and without changing anything.
C3_DisconnectingNoOp ==
    /\ CalledIn({"subscribe", "refresh_topics", "UpdateNotify",
                 "check_heartbeat", "Disconnect"}, DISCONNECTING)
       => SilentNoOp
    /\ CalledIn({"initialize"}, DISCONNECTING)
       => /\ last.exc # NoExc
          /\ last.calls = <<>>
          /\ last.changed = {}

\* a refresh_topics call made during shutdown has returned None
C3_Witness ==
    /\ CalledIn({"refresh_topics"}, DISCONNECTING)
    /\ last.ret = RetNone
    /\ state = DISCONNECTING

\* C4: check_heartbeat() called in DISCONNECTED returns False without
\* raising, makes no Heartbeat call and leaves the state DISCONNECTED.
C4_HeartbeatWhileDisconnected ==
    CalledIn({"check_heartbeat"}, DISCONNECTED)
    => /\ last.ret = RetBool(FALSE)
       /\ last.exc = NoExc
       /\ last.calls = <<>>
       /\ last.changed = {}
       /\ last.after.state = DISCONNECTED

\* a heartbeat probe of a disconnected client has returned False
C4_Witness ==
    /\ CalledIn({"check_heartbeat"}, DISCONNECTED)
    /\ last.ret = RetBool(FALSE)

\* C5: initialize() called in CONNECTING, CONNECTED or DISCONNECTING fails
\* with RTDConnectionError, makes no CreateObject or ServerStart call and
\* leaves the connection state as it was.
C5_InitializeOnlyFromDisconnected ==
    (last.op = "initialize" /\ last.was # DISCONNECTED)
    => /\ last.exc.cls = "RTDConnectionError"
       /\ last.calls = <<>>
       /\ last.changed = {}
       /\ last.after.state = last.was

\* C6: when the handshake of initialize() fails, initialize raises, the
\* state is DISCONNECTED, the heartbeat interval is unchanged, COM is
\* uninitialized and the client holds no server handle.
C6_FailedHandshakeReleases ==
    (last.op = "initialize" /\ last.was = DISCONNECTED /\ last.ret = RetRaised)
    => /\ last.exc # NoExc
       /\ last.after.state = DISCONNECTED
       /\ "heartbeat_interval" \notin last.changed
       /\ last.after.coInit = 0
       /\ last.after.server = None

\* the requests whose field names a quote type
ValidRequests == {req \in Requests : validate_quote_type(req[1]) # {}}

\* C7 as stated: two subscribe calls for the same (field, symbol) on a
\* connected client, no Disconnect running, issue at most one ConnectData
\* in total and return the same topic id.
C7_TwoSubscribesOneCall ==
    [][(/\ last.op = "subscribe" /\ last.was = CONNECTED
        /\ last'.op = "subscribe" /\ last'.was = CONNECTED
        /\ last'.args = last.args
        /\ last' # last
        /\ pcDisc = "idle" /\ pcDisc' = "idle")
       => (/\ Len(last.calls) + Len(last'.calls) <= 1
           /\ last.ret.kind = "id"
           /\ last'.ret = last.ret)]_vars

\* C7: on a connected client, subscribe for a pair that is in the
\* subscription table returns the id of its entry, issues no ConnectData
\* and leaves the table as it is; so after an acknowledged subscribe a
\* second one for the same pair adds no provider call and returns the
\* same id.
C7_ResubscribeIsNoOp ==
    state = CONNECTED
    => \A req \in ValidRequests, out \in ProviderOutcomes :
         LET found == find_topic_id(topics, req[2], req[1])
             r == subscribe(state, server, topics, acked, req[1], req[2], out)
         IN  found # {}
             => /\ r.exc = NoExc
                /\ r.ret.kind = "id"
                /\ r.ret.id \in found
                /\ r.calls = <<>>
                /\ r.topics = topics

\* a subscribe for a pair already in the table has returned its id
\* without a provider call
C7_Witness ==
    /\ CalledIn({"subscribe"}, CONNECTED)
    /\ last.ret.kind = "id"
    /\ last.calls = <<>>
    /\ find_topic_id(topics, last.args[1][2], last.args[1][1]) = {last.ret.id}

\* C8: every id in the subscription table was acknowledged by the
\* provider and not successfully disconnected since; a subscribe the
\* provider refuses returns None without raising and adds no entry.
C8_TableTracksProvider ==
    /\ DOMAIN topics \subseteq acked
    /\ (/\ last.op = "subscribe"
        /\ last.calls # <<>>
        /\ last.calls[1].out = "refuse")
       => /\ last.ret = RetNone
          /\ last.exc = NoExc
          /\ "topics" \notin last.changed

\* the provider has refused a subscribe while another id is in the table
C8_Witness ==
    /\ state = CONNECTED
    /\ last.op = "subscribe"
    /\ last.calls # <<>>
    /\ last.calls[1].out = "refuse"
    /\ last.ret = RetNone
    /\ topics # <<>>

\* what the recorded unsubscribe, which returned a flag, did to the table
UnsubscribeEffect ==
    /\ last.exc = NoExc
    /\ last.ret.kind = "bool"
    /\ last.ret.flag <=> (last.calls # <<>> /\ last.calls[1].out = "ok")
    /\ last.ret.flag <=> ("topics" \in last.changed)
    /\ last.changed \subseteq {"topics"}

\* C9 as stated: every unsubscribe on a connected client returns True or
\* False, True exactly when DisconnectData was called and reported
\* success, and the table changes exactly when it returns True.
C9_UnsubscribeReturnsFlag ==
    CalledIn({"unsubscribe"}, CONNECTED) => UnsubscribeEffect

\* C9: on a connected client, unsubscribe for a field that names a quote
\* type returns True and removes exactly the pair's entry if and only if
\* the pair is in the table and DisconnectData reports success; otherwise
\* it returns False and leaves the table unchanged, with no provider call
\* when the pair is not in the table.  For a field that names no quote
\* type it raises RTDClientError, without a provider call or a change.
C9_Unsubscribe ==
    /\ CalledIn({"unsubscribe"}, CONNECTED)
       => IF validate_quote_type(last.args[1][1]) = {}
          THEN /\ last.exc.cls = "RTDClientError"
               /\ last.calls = <<>>
               /\ last.changed = {}
          ELSE UnsubscribeEffect
    /\ state = CONNECTED
       => \A req \in ValidRequests, out \in ProviderOutcomes :
            LET found == find_topic_id(topics, req[2], req[1])
                r == unsubscribe(state, server, topics, acked,
                                 req[1], req[2], out)
            IN  IF found # {} /\ server # None /\ out = "ok"
                THEN /\ r.ret = RetBool(TRUE)
                     /\ r.exc = NoExc
                     /\ DOMAIN r.topics = DOMAIN topics \ found
                     /\ \A id \in DOMAIN r.topics : r.topics[id] = topics[id]
                ELSE /\ r.ret = RetBool(FALSE)
                     /\ r.exc = NoExc
                     /\ r.topics = topics
                     /\ found = {} => r.calls = <<>>

\* an unsubscribe has removed one entry and left another in the table
C9_Witness ==
    /\ CalledIn({"unsubscribe"}, CONNECTED)
    /\ last.ret = RetBool(TRUE)
    /\ "topics" \in last.changed
    /\ topics # <<>>

\* the pairs a batch was called with
Requested(args) == {args[i] : i \in DOMAIN args}

\* the recorded batch did not raise, attempted every item and returned a
\* map over the requested pairs
BatchAttemptsAll ==
    /\ last.exc = NoExc
    /\ last.ret.kind = "map"
    /\ Len(last.items) = Len(last.args)
    /\ DOMAIN last.ret.map = Requested(last.args)

\* C10 as stated: a batch attempts every item, never raises, and the flag
\* of each item's pair is True exactly when that item's own subscribe or
\* unsubscribe succeeded.
C10_BatchFlagPerItem ==
    last.op \in {"batch_subscribe", "batch_unsubscribe"}
    => /\ BatchAttemptsAll
       /\ \A i \in DOMAIN last.args :
            last.ret.map[last.args[i]] = last.items[i]

\* C10: a batch attempts every item whatever happened to the earlier
\* ones, never raises, and returns a map with one flag per distinct
\* requested pair: True exactly when the last item of the list for that
\* pair succeeded.
C10_BatchBestEffort ==
    last.op \in {"batch_subscribe", "batch_unsubscribe"}
    => /\ BatchAttemptsAll
       /\ \A i \in DOMAIN last.args :
            (\A j \in DOMAIN last.args : j > i => last.args[j] # last.args[i])
            => last.ret.map[last.args[i]] = last.items[i]

\* a batch_subscribe whose first item raised has gone on to its second
C10_Witness ==
    /\ last.op = "batch_subscribe"
    /\ last.items = <<FALSE, TRUE>>
    /\ last.calls # <<>>
    /\ last.calls[1].out = "raise"

\* the recorded call is a refresh of a connected client whose RefreshData
\* result had one of shapes
RefreshedWith(ops, shapes) ==
    /\ CalledIn(ops, CONNECTED)
    /\ last.calls # <<>>
    /\ last.calls[1].fn = "RefreshData"
    /\ last.calls[1].out \in shapes

C12_FailedRefreshChangesNothing ==
    (/\ RefreshedWith({"refresh_topics", "UpdateNotify"}, {"raise", "data"})
     /\ last.ret = RefreshFailed)
    => /\ last.exc = NoExc
       /\ last.after.state = CONNECTED
       /\ last.changed \subseteq {"update_notify_count"}

(* ------------------------------------------------------------------ *)
(* RTDWorker.start                                                    *)
(* ------------------------------------------------------------------ *)

\* the thread whose start() SpecWorker follows
Caller == thr[1]

\* the positions in the list of the symbols whose passes all raised
FailedSymbols(w) ==
    {k \in DOMAIN w.symbols : w.attempts[k] > 0 /\ w.raises[k] = w.attempts[k]}

\* the symbols at the positions ks, in the order of the list
RECURSIVE SymbolsAt(_, _, _)
SymbolsAt(symbols, ks, k) ==
    IF k > Len(symbols) THEN <<>>
    ELSE (IF k \in ks THEN <<symbols[k]>> ELSE <<>>)
         \o SymbolsAt(symbols, ks, k + 1)

\* start() is past its subscriptions
Subscribing(w) == w.pc \in {"create", "initialize", "initialized", "subscribe"}

\* C13: when the subscription of some symbols raises on every attempt,
\* start() makes exactly 3 attempts for each of them, puts exactly one
\* error message that names each of them with 3 attempts, puts no
\* snapshot, and returns without entering the polling loop.
C13_FailedSubscriptionsReported ==
    (~Subscribing(Caller) /\ FailedSymbols(Caller) # {}) =>
        /\ \A k \in FailedSymbols(Caller) : Caller.attempts[k] = 3
        /\ ~Caller.looped
        /\ Caller.snapshots = 0
        /\ Caller.pc \in {"finally", "idle"} =>
              /\ Caller.path = "subscription"
              /\ Caller.errors = 1
              /\ Caller.posted =
                    <<[kind |-> "error", text |-> "Failed to subscribe to",
                       symbols |-> SymbolsAt(Caller.symbols,
                                             FailedSymbols(Caller), 1),
                       attempts |-> 3]>>

C13_Witness ==
    /\ Caller.pc = "idle"
    /\ Caller.path = "subscription"
    /\ Len(Caller.symbols) = 2
    /\ Cardinality(FailedSymbols(Caller)) = 1

\* start() is in its polling loop
InLoop(w) == w.pc \in {"loop", "pump", "poll", "drain"}

\* C14: whenever start() is in its polling loop, every field it requested
\* for every symbol is in the subscription table of its client; after a
\* subscription that did not take effect the loop is not entered.
C14_NoPartialSubscription ==
    InLoop(Caller) =>
        /\ wClient # 0
        /\ \A k \in DOMAIN Caller.symbols :
             \A f \in DOMAIN SymbolFields(Caller.symbols[k]) :
               generate_topic_id(SymbolFields(Caller.symbols[k])[f],
                                 Caller.symbols[k])
                 \in DOMAIN clients[wClient].topics

\* the cache of the attached client, flattened as the poll flattens it
Polled == Snapshot(clients[wClient].latest_values)

\* C15: a snapshot is put only when it differs by value from the last
\* one put: the poll that finds the cache as it was at the poll before
\* puts nothing on the queue and removes nothing from it, and every
\* snapshot put differs from the one put before it.
C15_UnchangedSnapshotNotPosted ==
    [][/\ (/\ Caller.pc = "poll"
           /\ Caller'.pc # "poll"
           /\ wClient # 0
           /\ Polled = Caller.last_data) =>
              /\ Caller'.pc = "loop"
              /\ queue' = queue
              /\ Caller'.posted = Caller.posted
       /\ (InLoop(Caller) /\ Caller'.posted # Caller.posted) =>
              /\ Caller'.posted =
                    Append(Caller.posted, SnapshotMessage(Caller'.last_data))
              /\ Caller'.last_data # Caller.last_data]_vars

C15_Witness ==
    /\ Caller.skipped
    /\ Caller.snapshots = 1
    /\ queue = <<SnapshotMessage(Caller.last_data)>>

\* the snapshots that wait in the queue
Pending(q) == {j \in DOMAIN q : q[j].kind = "snapshot"}

\* C16: however the worker's loop and the consumer interleave, the queue
\* never holds more than one pending snapshot, and right after a snapshot
\* is put the queue holds exactly that snapshot.
C16_OnePendingSnapshot ==
    [][/\ Cardinality(Pending(queue')) <= 1
       /\ (InLoop(Caller) /\ Caller'.posted # Caller.posted) =>
              queue' = <<SnapshotMessage(Caller'.last_data)>>]_vars

C16_Witness ==
    /\ Caller.discarded = 1
    /\ Caller.snapshots = 2
    /\ queue = <<SnapshotMessage(Caller.last_data)>>

\* the ways start() returns: `return` for an empty list, initialize()
\* raised, the aggregated subscription error, the stop signal, an
\* exception in the loop; and the client's constructor raised
ExitPaths == {"empty", "initialize", "subscription", "stop", "loop"}

\* C17: on every exit path of start() (empty symbol list, failed
\* initialization, aggregated subscription failure, stop signal,
\* exception in the loop) cleanup has run exactly once when start()
\* returns: Disconnect was invoked exactly once and the COM context
\* was released exactly once.
C17_CleanupOncePerExit ==
    /\ (Caller.pc = "idle" /\ Caller.path # "") =>
          /\ Caller.cleanups = 1
          /\ Caller.releases = 1
          /\ Caller.path \in ExitPaths => Caller.disconnects = 1
    /\ Caller.pc # "idle" =>
          /\ Caller.cleanups = 0
          /\ Caller.releases = 0
          /\ Caller.disconnects = 0

C17_Witness ==
    /\ Caller.pc = "idle"
    /\ Caller.path = "loop"
    /\ Caller.disconnects = 1
    /\ Caller.left = DISCONNECTED

\* C18: once the stop signal is set while start() is in its polling
\* loop, start() puts at most one further snapshot, leaves the loop and
\* eventually returns with its client Disconnected.
C18_StopTerminates ==
    /\ [](Caller.afterStop <= 1)
    /\ (stop_event /\ InLoop(Caller)) ~>
          (Caller.pc = "idle" /\ Caller.left = DISCONNECTED)

C18_Witness ==
    /\ stop_event
    /\ Caller.pc = "idle"
    /\ Caller.path = "stop"
    /\ Caller.afterStop = 1
    /\ Caller.left = DISCONNECTED

\* the keys "<symbol>:<field>" of the fields start() subscribes
SnapshotKeys ==
    UNION {{SnapshotKey(symbol, SymbolFields(symbol)[f]) :
               f \in DOMAIN SymbolFields(symbol)} : symbol \in WorkerSymbols}

\* a message the presentation layer handles: a flattened snapshot, an
\* error message or a status message
Handled(m) ==
    \/ m.kind = "snapshot" /\ m.data # <<>> /\ DOMAIN m.data \subseteq SnapshotKeys
    \/ m.kind = "error" /\ DOMAIN m = {"kind", "text", "symbols", "attempts"}
    \/ m.kind = "status"

\* the ways start() fails: the constructor or initialize() raised, the
\* subscriptions of a symbol raised three times, the loop raised
FailurePaths == {"create", "initialize", "subscription", "loop"}

ActiveClients ==
    {k \in DOMAIN clients : clients[k].state \in {CONNECTING, CONNECTED}}

\* C20: over any sequence or overlap of start() calls on one worker, at
\* most one client created by the worker is Connecting or Connected at
\* any time.
C20_AtMostOneActiveClient == Cardinality(ActiveClients) <= 1

(* ------------------------------------------------------------------ *)
(* Disconnect, the quote conversions and the locks                    *)
(* ------------------------------------------------------------------ *)

\* the step in which a Disconnect() that ran its body returns
DisconnectCompletes == pcDisc = "busy" /\ pcDisc' = "idle"

\* C21: when Disconnect() completes, the subscription table and the
\* latest-value cache of the client are both empty.
C21_DisconnectClearsTableAndCache ==
    [][DisconnectCompletes =>
          (topics' = <<>> /\ latest_values' = <<>>)]_vars

Delivered ==
    /\ InLoop(Caller)
    /\ wClient # 0
    /\ <<"SPY", "LAST">> \in DOMAIN clients[wClient].latest_values

\* the first message start() put is a snapshot with a number for SPY:LAST
FirstIsLastPrice ==
    /\ Caller.posted # <<>>
    /\ Caller.posted[1].kind = "snapshot"
    /\ "SPY:LAST" \in DOMAIN Caller.posted[1].data
    /\ Caller.posted[1].data["SPY:LAST"] \in Nat
    /\ {"error", "status"} \cap DOMAIN Caller.posted[1].data = {}

ExtendsSession ==
    /\ wClient # 0
    /\ wClient' = wClient
    /\ Len(clients') = Len(clients)
    /\ clients[wClient].state = CONNECTED
    /\ clients'[wClient].state = CONNECTED
    /\ DOMAIN clients[wClient].topics # DOMAIN clients'[wClient].topics
    /\ DOMAIN clients[wClient].topics \subseteq DOMAIN clients'[wClient].topics

\* C24: a worker whose session is live (start() is in its polling loop
\* with a CONNECTED client) offers an operation that adds subscriptions
\* to that same client, without initialize() and without a new client.
C24_MidSessionExtension ==
    (InLoop(Caller) /\ wClient # 0 /\ clients[wClient].state = CONNECTED)
        => ENABLED (NextWorker /\ ExtendsSession)

NotAvailableValues == {None, "N/A", "!N/A", "", " "}

\* C26: for every field kind, a 'not available' raw value (None, "N/A",
\* "!N/A" or blank) normalizes to None, nothing is raised, and the except
\* branch of no conversion runs.
C26_NotAvailableIsNeverParsed ==
    (last.op = "Quote" /\ last.args[2] \in NotAvailableValues) =>
        /\ last.exc = NoExc
        /\ last.ret.value = {}
        /\ ~last.ret.parse_failed

\* C27: no lock of the Client is held while a provider call (ConnectData,
\* DisconnectData, RefreshData, Heartbeat, ServerTerminate) is in
\* progress.
C27_NoLockAcrossProviderCall ==
    \A i \in DOMAIN last.calls :
        last.calls[i].fn \in ProviderCalls =>
            LocksHeld(last.op, last.calls[i].fn) \cap ClientLocks = {}

\* the edges of the connection state machine
StateEdges ==
    {<<DISCONNECTED, CONNECTING>>, <<CONNECTING, CONNECTED>>,
     <<CONNECTING, DISCONNECTED>>, <<CONNECTING, DISCONNECTING>>,
     <<CONNECTED, DISCONNECTING>>, <<DISCONNECTING, DISCONNECTED>>}

\* C28: under any interleaving of initialize(), Disconnect() and the
\* callbacks, every change of the connection state follows one of the
\* six edges; in particular the state never goes from Disconnected or
\* Disconnecting directly to Connected.
C28_OnlyStateMachineEdges ==
    [][state' # state => <<state, state'>> \in StateEdges]_vars

\* the mutations of the subscription table a step performs: the insert of
\* subscribe, the delete of unsubscribe, the clear of Disconnect
TableMutations ==
    (IF DOMAIN topics' \ DOMAIN topics # {} THEN {"insert"} ELSE {})
    \cup
    (IF pcDisc' = pcDisc /\ DOMAIN topics \ DOMAIN topics' # {}
     THEN {"delete"} ELSE {})
    \cup
    (IF DisconnectCompletes THEN {"clear"} ELSE {})

\* the locks of the Client its caller holds at a mutation of the table:
\* insert and delete are inside `with self._topic_lock`, the clear is in
\* the body of Disconnect, inside `with self._lock` only
MutationLocks(mutation) ==
    IF mutation \in {"insert", "delete"} THEN {"_topic_lock"} ELSE {"_lock"}

\* C29: every mutation of the subscription table (the insert in
\* subscribe, the delete in unsubscribe, the clear during Disconnect) is
\* performed while its caller holds the topic-table lock.
C29_TableMutatedUnderTopicLock ==
    [][\A mutation \in TableMutations :
          "_topic_lock" \in MutationLocks(mutation)]_vars

\* C30: every snapshot the Worker posts is the content of the cache at one
\* instant: while the Worker holds the value-cache lock for its read no
\* write changes the cache, so the snapshot it puts and keeps as
\* last_data is the cache as it is at the put.
C30_SnapshotIsOneCacheInstant ==
    /\ [][\A t \in Threads :
            (thr[t].pc = "drain" /\ thr'[t].pc = "loop") =>
                /\ wClient # 0
                /\ thr'[t].last_data = Snapshot(clients[wClient].latest_values)
                /\ queue' = <<SnapshotMessage(
                                Snapshot(clients[wClient].latest_values))>>]_vars
    /\ [][(wClient # 0 /\ wClient' = wClient
            /\ clients[wClient].value_lock # 0) =>
              clients'[wClient].latest_values =
                  clients[wClient].latest_values]_vars

C30_Witness ==
    /\ Caller.pc = "drain"
    /\ wClient # 0
    /\ clients[wClient].value_lock = 1
    /\ Cardinality(DOMAIN Caller.current_data) = 2
    /\ Caller.snapshots = 1
    /\ thr[2].pumped = 1
    /\ Caller.current_data = Snapshot(clients[wClient].latest_values)

(* ------------------------------------------------------------------ *)
(* Ids, the worker's reset, notifications, the heartbeat interval     *)
(* ------------------------------------------------------------------ *)

\* C31: whenever subscribe(field, symbol) returns a topic id, the table
\* maps that id to exactly (symbol, field) and the provider has
\* acknowledged the topic, also when two pairs have the same id.
C31_IdMapsToItsPair ==
    (last.op = "subscribe" /\ last.ret.kind = "id") =>
        /\ last.ret.id \in DOMAIN topics
        /\ topics[last.ret.id] = <<last.args[1][2], last.args[1][1]>>
        /\ last.ret.id \in acked

\* start() has been called on the first thread and has returned
Returned == starts > 0 /\ Caller.pc = "idle"

\* C32: after start() has returned, on every exit path, the worker holds
\* no client (self.client is None) and its initialized flag is False.
C32_WorkerResetAfterStart ==
    Returned => (wClient = 0 /\ ~wInitialized)

\* C33: UpdateNotify calls RefreshData, counts the notification and can
\* change the cache only when the state is Connected; called in
\* Disconnected or Connecting it makes no provider call and leaves the
\* counter, the cache and the state as they are.
C33_NotifyOnlyWhenConnected ==
    last.op = "UpdateNotify" =>
        /\ last.was \in {DISCONNECTED, CONNECTING} =>
              (last.calls = <<>> /\ last.changed = {})
        /\ (last.calls # <<>> \/ last.changed # {}) => last.was = CONNECTED
        /\ last.was = CONNECTED =>
              /\ "update_notify_count" \in last.changed
              /\ last.changed \subseteq {"update_notify_count", "latest_values"}
              /\ \A i \in DOMAIN last.calls : last.calls[i].fn = "RefreshData"
              /\ Len(last.calls) <= 1

C33_Witness ==
    /\ last.op = "UpdateNotify"
    /\ last.was = CONNECTING
    /\ server # None
    /\ last.exc # NoExc
    /\ topics = <<>>

\* the state becomes Connected
BecomesConnected == state # CONNECTED /\ state' = CONNECTED

\* C34: the heartbeat interval is the startup value from construction
\* until initialize() succeeds; it is set to the steady-state value exactly
\* in the step in which the state becomes Connected; no other step, a
\* failed initialize() and Disconnect() included, changes it.
C34_HeartbeatLoweredOnConnect ==
    /\ heartbeat_interval = InitialHeartbeat
    /\ [][heartbeat_interval' # heartbeat_interval => BecomesConnected]_vars
    /\ [][BecomesConnected =>
             /\ heartbeat_interval' = DefaultHeartbeat
             /\ heartbeat_interval' # InitialHeartbeat]_vars

C34_Witness ==
    /\ last.op = "initialize"
    /\ last.exc # NoExc
    /\ last.calls # <<>>
    /\ state = DISCONNECTED
    /\ heartbeat_interval = DefaultHeartbeat


(* ------------------------------------------------------------------ *)
(* Calls in progress: waiting for locks, the handle, the table        *)
(* ------------------------------------------------------------------ *)

\* the call of thread c waits for a lock that a call beneath it on the
\* same thread holds: the holder resumes only after the waiting call
\* returns, so the lock is never released
SelfBlocked(c) == Waiting(c) /\ Top(c).waits \in HeldBy(c)

\* thread c waits forever: for a lock of its own, for a lock of a thread
\* that waits forever on its own, or in a cycle with the other thread
WaitsForever(c) ==
    /\ Waiting(c)
    /\ \E d \in Threads :
         /\ Top(c).waits \in HeldBy(d)
         /\ \/ d = c
            \/ SelfBlocked(d)
            \/ Waiting(d) /\ Top(d).waits \in HeldBy(c)

\* C35: under any interleaving of subscribe, unsubscribe, refresh_topics
\* and Disconnect, and under callbacks the provider delivers in the same
\* context while a ConnectData, DisconnectData or ServerTerminate call is
\* in progress, no caller waits forever on the connection lock, the
\* topic-table lock or the value-cache lock.
C35_NoCallerWaitsForever == \A c \in Threads : ~WaitsForever(c)

\* C36: in every reachable state, the interleavings of initialize() with
\* a Disconnect() issued while Connecting included, a Connected client
\* holds a server handle.
C36_ConnectedHoldsHandle == state = CONNECTED => server # None

\* C37: in every reachable state, the interleavings of a subscribe in
\* progress with a concurrent Disconnect included, a Disconnected client
\* has an empty subscription table.
C37_DisconnectedTableEmpty == state = DISCONNECTED => topics = <<>>


(* ------------------------------------------------------------------ *)
(* The cache and absent values, the execution context                 *)
(* ------------------------------------------------------------------ *)

\* the step is a refresh whose RefreshData result the history holds
RefreshStep == last'.op = "refresh_topics" /\ last'.args # <<>>

\* the refresh result data delivers, for the pair key of the table tp, a
\* value that the Quote does not normalize to None
DeliversValue(tp, data, key) ==
    \E i \in DOMAIN data :
        /\ data[i][1] \in DOMAIN tp
        /\ tp[data[i][1]] = key
        /\ QuoteProcessValue(key[2], data[i][2]) # {}

\* C38: the cache never holds an absent value: a refresh that delivers a
\* not-available (None-normalized) value for a pair, or a value for a
\* topic id that is not in the table, writes nothing, so the cache keeps
\* the pair's previous value, and every value a snapshot copies from the
\* cache is non-absent.
C38_CacheHoldsNoAbsentValue ==
    /\ [](\A key \in DOMAIN latest_values : latest_values[key] # NoneValue)
    /\ [][RefreshStep =>
            \A key \in DOMAIN latest_values \cup DOMAIN latest_values' :
                ~DeliversValue(topics, last'.args[1].data, key) =>
                    /\ key \in DOMAIN latest_values
                    /\ key \in DOMAIN latest_values'
                    /\ latest_values'[key] = latest_values[key]]_vars

\* a refresh has delivered "N/A" for a subscribed pair that had a value,
\* and a value for an id that is not in the table
C38_Witness ==
    /\ last.op = "refresh_topics"
    /\ last.args # <<>>
    /\ \E i, j \in DOMAIN last.args[1].data :
         LET d == last.args[1].data IN
         /\ d[i][2] = "N/A"
         /\ d[i][1] \in DOMAIN topics
         /\ topics[d[i][1]] \in DOMAIN latest_values
         /\ d[j][1] \notin DOMAIN topics
         /\ d[j][2] # "N/A"


\* C39: on every exit path of start() on which acquiring the execution
\* context does not itself fail, the CoInitialize calls made by the
\* worker and its client are as many as the CoUninitialize calls made by
\* cleanup(), Disconnect() and the failing initialize() together.
C39_ContextBalanced == Returned => Caller.coinits = Caller.couninits

\* start() has returned after the handshake of initialize() failed: two
\* acquisitions, one release by the failing initialize() and one by
\* cleanup(), whose Disconnect() raised
C39_Witness ==
    /\ Returned
    /\ Caller.path = "initialize"
    /\ Caller.disconnects = 1
    /\ Caller.coinits = 2
    /\ Caller.couninits = 2

====
